---- MODULE Spec2Model ----
(***************************************************************************)
(* A model of the Positronikal standards checker: the result model         *)
(* (ValidationResult), the four category validators and the orchestrator   *)
(* (PositronikalStandardsChecker), run against a small file system.        *)
(*                                                                         *)
(* A path is a sequence of components relative to the file system root;    *)
(* the file system maps the paths that exist to what is stored there.      *)
(* Check ids and messages are the strings the code builds.                 *)
(***************************************************************************)
EXTENDS Naturals, Sequences, FiniteSets, TLC

(***************************************************************************)
(* Bounds of the model.                                                    *)
(***************************************************************************)
\* checker objects that can be constructed
MaxCheckers == 2
\* operations made in one behaviour after the constructions: check_* and
\* check_all calls, operations on a report, changes of the repository
MaxOps == 2

(***************************************************************************)
(* Strings and paths.                                                      *)
(***************************************************************************)
RECURSIVE Join(_, _)
\* sep.join(parts) for a sequence of strings
Join(sep, parts) ==
    IF parts = <<>> THEN ""
    ELSE IF Len(parts) = 1 THEN parts[1]
    ELSE parts[1] \o sep \o Join(sep, Tail(parts))

\* the text of a relative path, as the catalogs of the code write it
PathStr(p) == Join("/", p)

\* filepath.replace('/', '_')
Underscored(p) == Join("_", p)

\* name.endswith(suffix)
EndsWith(name, suffix) ==
    /\ Len(name) >= Len(suffix)
    /\ SubSeq(name, Len(name) - Len(suffix) + 1, Len(name)) = suffix

RECURSIVE FirstWord(_)
\* s.split()[0] for a string that starts with a word
FirstWord(s) ==
    IF Len(s) = 0 \/ SubSeq(s, 1, 1) = " " THEN ""
    ELSE SubSeq(s, 1, 1) \o FirstWord(SubSeq(s, 2, Len(s)))

UpperCase ==
    [c \in {"a", "c", "g", "j", "p", "r", "s", "t", "h", "y"} |->
        CASE c = "a" -> "A" [] c = "c" -> "C" [] c = "g" -> "G"
          [] c = "j" -> "J" [] c = "p" -> "P" [] c = "r" -> "R"
          [] c = "s" -> "S" [] c = "t" -> "T" [] c = "h" -> "H"
          [] c = "y" -> "Y"]

\* str.capitalize() for a lower-case word
Capitalize(s) == UpperCase[SubSeq(s, 1, 1)] \o SubSeq(s, 2, Len(s))

\* s[:n]
Prefix(s, n) == SubSeq(s, 1, IF Len(s) < n THEN Len(s) ELSE n)

RECURSIVE Concat(_)
\* the concatenation of a sequence of sequences (results.extend, in order)
Concat(ss) == IF ss = <<>> THEN <<>> ELSE Head(ss) \o Concat(Tail(ss))

\* an outcome record as the category modules build it
Rec(check, status, message) ==
    [check |-> check, status |-> status, message |-> message]

(***************************************************************************)
(* The file system.                                                        *)
(***************************************************************************)
\* no content that any parser of the code understands
NoContent == [type |-> "none"]

\* a directory (stat reports one file system block for it)
Dir == [kind |-> "dir", size |-> 4096, exec |-> TRUE, content |-> NoContent]

\* a regular file of `size` bytes, not executable
File(size) == [kind |-> "file", size |-> size, exec |-> FALSE, content |-> NoContent]

\* a regular file of `size` bytes with its executable bit set
ExecFile(size) == [File(size) EXCEPT !.exec = TRUE]

\* a text file: whether it decodes as UTF-8, whether it holds a CR LF pair, its
\* lines (length without the terminator, whether the line holds a tab, whether
\* it ends in white space), the fixed strings of interest found in it, and the
\* kinds of sensitive data found in it
TextFile(size, utf8, crlf, lines, contains, sensitive) ==
    [File(size) EXCEPT !.content =
        [type |-> "text", utf8 |-> utf8, crlf |-> crlf, lines |-> lines,
         contains |-> contains, sensitive |-> sensitive]]

\* a line of a text file
Line(len, tab, trail) == [len |-> len, tab |-> tab, trail |-> trail]

\* a file holding a JSON object: the names under devDependencies, the scripts
\* (name -> value) and whether it has a top-level "lint-staged" key
JsonFile(size, devDependencies, scripts, lint_staged) ==
    [File(size) EXCEPT !.content =
        [type |-> "json", devDependencies |-> devDependencies,
         scripts |-> scripts, lint_staged |-> lint_staged]]

VARIABLES
    fs,        \* the file system: path -> Dir or File
    platform,  \* the host: os.name, the external tools installed, git's answer
    fault,     \* category -> text of the OSError its probes hit, "" if none
    checker,   \* checker object -> its repo_path, or NoChecker before construction
    results,   \* checker object -> its ValidationResult (four buckets), or NoReport
    ret,       \* what the last operation returned or raised
    returned,  \* the checker objects whose report was handed to a caller
    runs,      \* the check_all runs made so far, as the caller saw them
    ops,       \* number of operations made after the constructions
    edits      \* number of changes made to the repository or its host

vars == <<fs, platform, fault, checker, results, ret, returned, runs, ops, edits>>

\* Path.exists() of repo_path / rel
Exists(root, rel) == (root \o rel) \in DOMAIN fs

\* Path.is_dir()
IsDir(root, rel) == Exists(root, rel) /\ fs[root \o rel].kind = "dir"

\* Path.stat().st_size
StSize(root, rel) == fs[root \o rel].size

\* os.name
os_name == platform.os_name

\* os.access(path, os.X_OK)
Executable(root, rel) == Exists(root, rel) /\ fs[root \o rel].exec

\* any(dir_path.iterdir())
AnyChild(root, rel) ==
    \E q \in DOMAIN fs :
        /\ Len(q) = Len(root \o rel) + 1
        /\ SubSeq(q, 1, Len(root \o rel)) = root \o rel

RECURSIVE SeqOf(_)
\* the members of a finite set in one fixed order (the order a directory scan
\* yields them is the file system's, the same for the same tree)
SeqOf(S) ==
    IF S = {} THEN <<>>
    ELSE LET x == CHOOSE y \in S : TRUE IN <<x>> \o SeqOf(S \ {x})

\* the paths below root, relative to it
Below(root) ==
    { SubSeq(q, Len(root) + 1, Len(q)) :
        q \in { r \in DOMAIN fs :
                  Len(r) > Len(root) /\ SubSeq(r, 1, Len(root)) = root } }

\* list(repo_path.rglob("*" + suffix)), as paths relative to root
Rglob(root, suffix) ==
    SeqOf({ rel \in Below(root) : EndsWith(rel[Len(rel)], suffix) })

\* list(repo_path.glob("*" + suffix)): the direct children only
Glob(root, dir, suffix) ==
    SeqOf({ rel \in Below(root) :
              /\ Len(rel) = Len(dir) + 1
              /\ SubSeq(rel, 1, Len(dir)) = dir
              /\ EndsWith(rel[Len(rel)], suffix) })

\* the external tool named `name` on this host
Tool(name) ==
    IF name \in DOMAIN platform.tools
    THEN platform.tools[name]
    ELSE [found |-> FALSE, error |-> "", returncode |-> 0, stdout |-> "",
          stderr |-> "", seconds |-> 0]

\* the content of a file read as text
Text(root, rel) ==
    LET node == fs[root \o rel]
    IN  IF node.content.type = "text" THEN node.content
        ELSE [type |-> "text", utf8 |-> TRUE, crlf |-> FALSE, lines |-> <<>>,
              contains |-> {}, sensitive |-> {}]

\* open(path, "rb") succeeds
ReadableBytes(root, rel) == fs[root \o rel].kind = "file"

\* open(path, "r", encoding="utf-8") and reading it succeed
ReadableText(root, rel) == ReadableBytes(root, rel) /\ Text(root, rel).utf8

\* the text of the exception that reading the file as UTF-8 text raises
ReadError(root, rel) ==
    IF ~ReadableBytes(root, rel)
    THEN "[Errno 21] Is a directory: '" \o PathStr(root \o rel) \o "'"
    ELSE "'utf-8' codec can't decode byte 0xff in position 0: invalid start byte"

(***************************************************************************)
(* What a call gives its caller: a value, or an exception with its text.   *)
(***************************************************************************)
Return(v) == [raised |-> FALSE, value |-> v]

Raise(type, text) == [raised |-> TRUE, type |-> type, text |-> text]

(***************************************************************************)
(* File requirements (core/file_requirements.py).                          *)
(***************************************************************************)
REQUIRED_FILES ==
    << <<"README.md", "Project documentation">>,
       <<"CONTRIBUTING.md", "Contribution guidelines">>,
       <<".gitignore", "Git ignore patterns">> >>

LICENSE_FILES == <<"COPYING.md", "COPYING.LESSER.md", "LICENSE.md", "LICENSE.CC.md">>

RECOMMENDED_FILES ==
    << <<"AUTHORS.md", "List of contributors">>,
       <<"BUGS.md", "Bug reporting guidelines">>,
       <<"SECURITY.md", "Security policy">>,
       <<"USING.md", "Usage instructions">>,
       <<".editorconfig", "Editor configuration">> >>

GITHUB_FILES ==
    << << <<".github", "SECURITY.md">>, "GitHub security policy">>,
       << <<".github", "CODEOWNERS">>, "Code ownership">>,
       << <<".github", "dependabot.yml">>, "Dependabot configuration">>,
       << <<".github", "workflows", "ci.yml">>, "CI workflow">>,
       << <<".github", "workflows", "codeql.yml">>, "CodeQL security scanning">> >>

GITHUB_TEMPLATES ==
    << << <<".github", "ISSUE_TEMPLATE", "bug_report.md">>, "Bug report template">>,
       << <<".github", "ISSUE_TEMPLATE", "feature_request.md">>, "Feature request template">>,
       << <<".github", "pull_request_template.md">>, "Pull request template">> >>

STANDARD_DIRECTORIES ==
    << <<"src", "Source code">>,
       <<"test", "Test files">>,
       <<"docs", "Documentation">> >>

\* _check_required_files without the look at the size of the file
_check_required_files_any_size(root) ==
    [i \in 1..Len(REQUIRED_FILES) |->
        LET filename == REQUIRED_FILES[i][1]
            description == REQUIRED_FILES[i][2]
        IN  IF Exists(root, <<filename>>)
            THEN Rec("required_file_" \o filename, "pass",
                     "Required file exists: " \o filename)
            ELSE Rec("required_file_" \o filename, "fail",
                     "Missing required file: " \o filename
                         \o " (" \o description \o ")")]

_check_required_files(root) ==
    [i \in 1..Len(REQUIRED_FILES) |->
        LET filename == REQUIRED_FILES[i][1]
            description == REQUIRED_FILES[i][2]
        IN  IF Exists(root, <<filename>>)
            THEN IF StSize(root, <<filename>>) > 0
                 THEN Rec("required_file_" \o filename, "pass",
                          "Required file exists: " \o filename)
                 ELSE Rec("required_file_" \o filename, "warning",
                          "Required file exists but is empty: " \o filename)
            ELSE Rec("required_file_" \o filename, "fail",
                     "Missing required file: " \o filename
                         \o " (" \o description \o ")")]

\* _check_license_files looking for the first name of LICENSE_FILES only
_check_license_files_first_name_only(root) ==
    LET found_licenses ==
            SelectSeq(SubSeq(LICENSE_FILES, 1, 1), LAMBDA f : Exists(root, <<f>>))
    IN  IF found_licenses # <<>>
        THEN << Rec("license_file", "pass",
                    "License file(s) found: " \o Join(", ", found_licenses)) >>
        ELSE << Rec("license_file", "fail",
                    "No license file found. Need one of: "
                        \o Join(", ", LICENSE_FILES)) >>

_check_license_files(root) ==
    LET found_licenses ==
            SelectSeq(LICENSE_FILES, LAMBDA f : Exists(root, <<f>>))
    IN  IF found_licenses # <<>>
        THEN << Rec("license_file", "pass",
                    "License file(s) found: " \o Join(", ", found_licenses)) >>
        ELSE << Rec("license_file", "fail",
                    "No license file found. Need one of: "
                        \o Join(", ", LICENSE_FILES)) >>

_check_recommended_files(root) ==
    [i \in 1..Len(RECOMMENDED_FILES) |->
        LET filename == RECOMMENDED_FILES[i][1]
            description == RECOMMENDED_FILES[i][2]
        IN  IF Exists(root, <<filename>>)
            THEN Rec("recommended_file_" \o filename, "pass",
                     "Recommended file exists: " \o filename)
            ELSE Rec("recommended_file_" \o filename, "warning",
                     "Missing recommended file: " \o filename
                         \o " (" \o description \o ")")]

_check_github_files(root) ==
    [i \in 1..Len(GITHUB_FILES) |->
        LET filepath == GITHUB_FILES[i][1]
            description == GITHUB_FILES[i][2]
        IN  IF Exists(root, filepath)
            THEN Rec("github_file_" \o Underscored(filepath), "pass",
                     "GitHub file exists: " \o PathStr(filepath))
            ELSE Rec("github_file_" \o Underscored(filepath), "fail",
                     "Missing GitHub file: " \o PathStr(filepath)
                         \o " (" \o description \o ")")]

_check_github_templates(root) ==
    [i \in 1..Len(GITHUB_TEMPLATES) |->
        LET filepath == GITHUB_TEMPLATES[i][1]
            description == GITHUB_TEMPLATES[i][2]
        IN  IF Exists(root, filepath)
            THEN Rec("github_template_" \o Underscored(filepath), "pass",
                     "GitHub template exists: " \o PathStr(filepath))
            ELSE Rec("github_template_" \o Underscored(filepath), "warning",
                     "Missing GitHub template: " \o PathStr(filepath)
                         \o " (" \o description \o ")")]

_check_standard_directories(root) ==
    [i \in 1..Len(STANDARD_DIRECTORIES) |->
        LET dirname == STANDARD_DIRECTORIES[i][1]
            description == STANDARD_DIRECTORIES[i][2]
        IN  IF Exists(root, <<dirname>>) /\ IsDir(root, <<dirname>>)
            THEN IF AnyChild(root, <<dirname>>)
                 THEN Rec("standard_dir_" \o dirname, "pass",
                          "Standard directory exists: " \o dirname)
                 ELSE Rec("standard_dir_" \o dirname, "warning",
                          "Standard directory exists but is empty: " \o dirname)
            ELSE Rec("standard_dir_" \o dirname, "warning",
                     "Missing standard directory: " \o dirname
                         \o " (" \o description \o ")")]

\* FileRequirementsValidator.validate: the records of every file check, in
\* order, unless a probe of the file system (stat, iterdir) raises
FileRequirementsValidator_validate(root) ==
    IF fault["files"] # ""
    THEN Raise("PermissionError", fault["files"])
    ELSE Return(Concat(<<
            _check_required_files(root),
            _check_license_files(root),
            _check_recommended_files(root),
            IF Exists(root, <<".github">>)
            THEN _check_github_files(root) \o _check_github_templates(root)
            ELSE <<>>,
            _check_standard_directories(root) >>))

(***************************************************************************)
(* Build system (core/build_system.py).                                    *)
(***************************************************************************)
REQUIRED_NPM_PACKAGES ==
    << <<"husky", "^9.1.7">>,
       <<"lint-staged", "^15.5.0">>,
       <<"prettier", "^3.5.3">> >>

\* REQUIRED_NPM_SCRIPTS with the prepare script of earlier husky releases
REQUIRED_NPM_SCRIPTS_husky_install ==
    << <<"prepare", "husky install">>,
       <<"pre-commit", "lint-staged">> >>

REQUIRED_NPM_SCRIPTS ==
    << <<"prepare", "husky">>,
       <<"pre-commit", "lint-staged">> >>

GIT_HOOKS ==
    << << <<".husky", "pre-commit">>, "Pre-commit hook">>,
       << <<".husky", "commit-msg">>, "Commit message validation hook">> >>

\* open(path) and json.load: the parsed object, or the exception raised
JsonLoad(root, rel) ==
    LET node == fs[root \o rel]
    IN  IF node.kind = "dir"
        THEN Raise("IsADirectoryError",
                   "[Errno 21] Is a directory: '" \o PathStr(root \o rel) \o "'")
        ELSE IF node.content.type = "json"
        THEN Return(node.content)
        ELSE Raise("JSONDecodeError", "Expecting value: line 1 column 1 (char 0)")

_check_npm_requirements(root) ==
    LET loaded == JsonLoad(root, <<"package.json">>)
        package_data == loaded.value
        dev_deps == package_data.devDependencies
        scripts == package_data.scripts
        packages ==
            [i \in 1..Len(REQUIRED_NPM_PACKAGES) |->
                LET package == REQUIRED_NPM_PACKAGES[i][1]
                    required_version == REQUIRED_NPM_PACKAGES[i][2]
                IN  IF package \in dev_deps
                    THEN Rec("npm_package_" \o package, "pass",
                             "Required package " \o package
                                 \o " found in devDependencies")
                    ELSE Rec("npm_package_" \o package, "fail",
                             "Missing required package: " \o package
                                 \o " " \o required_version)]
        script_checks ==
            [i \in 1..Len(REQUIRED_NPM_SCRIPTS) |->
                LET script_name == REQUIRED_NPM_SCRIPTS[i][1]
                    expected_value == REQUIRED_NPM_SCRIPTS[i][2]
                IN  IF script_name \in DOMAIN scripts
                    THEN IF scripts[script_name] = expected_value
                         THEN Rec("npm_script_" \o script_name, "pass",
                                  "Required script '" \o script_name
                                      \o "' configured correctly")
                         ELSE Rec("npm_script_" \o script_name, "warning",
                                  "Script '" \o script_name
                                      \o "' exists but value differs: expected '"
                                      \o expected_value \o "', got '"
                                      \o scripts[script_name] \o "'")
                    ELSE Rec("npm_script_" \o script_name, "fail",
                             "Missing required script: " \o script_name)]
        lint_staged ==
            IF package_data.lint_staged \/ Exists(root, <<".lintstagedrc">>)
            THEN << Rec("lint_staged_config", "pass",
                        "lint-staged configuration found") >>
            ELSE << Rec("lint_staged_config", "warning",
                        "No lint-staged configuration found") >>
    IN  IF ~loaded.raised
        THEN packages \o script_checks \o lint_staged
        ELSE IF loaded.type = "JSONDecodeError"
        THEN << Rec("package_json", "fail",
                    "Invalid package.json: " \o loaded.text) >>
        ELSE << Rec("package_json", "fail",
                    "Error reading package.json: " \o loaded.text) >>

_check_git_hooks(root) ==
    [i \in 1..Len(GIT_HOOKS) |->
        LET hook_path == GIT_HOOKS[i][1]
            description == GIT_HOOKS[i][2]
        IN  IF Exists(root, hook_path)
            THEN IF os_name # "nt"
                 THEN IF Executable(root, hook_path)
                      THEN Rec("git_hook_" \o Underscored(hook_path), "pass",
                               "Git hook exists and is executable: "
                                   \o PathStr(hook_path))
                      ELSE Rec("git_hook_" \o Underscored(hook_path), "warning",
                               "Git hook exists but is not executable: "
                                   \o PathStr(hook_path))
                 ELSE Rec("git_hook_" \o Underscored(hook_path), "pass",
                          "Git hook exists: " \o PathStr(hook_path))
            ELSE Rec("git_hook_" \o Underscored(hook_path), "fail",
                     "Missing git hook: " \o PathStr(hook_path)
                         \o " (" \o description \o ")")]

\* any(self.repo_path.rglob(...) for ext in [...]): any() over six generator
\* objects, none of which is ever iterated; a generator object is true
has_source_code(root) ==
    \E ext \in {"c", "cpp", "cc", "cxx", "h", "hpp"} : TRUE

_check_gnu_make(root) ==
    IF ~has_source_code(root)
    THEN <<>>
    ELSE
      Concat(<<
        IF Exists(root, <<"configure">>)
        THEN IF os_name # "nt" /\ Executable(root, <<"configure">>)
             THEN << Rec("gnu_make_configure", "pass",
                         "GNU configure script exists and is executable") >>
             ELSE IF os_name = "nt"
             THEN << Rec("gnu_make_configure", "pass",
                         "GNU configure script exists") >>
             ELSE << Rec("gnu_make_configure", "warning",
                         "GNU configure script exists but is not executable") >>
        ELSE << Rec("gnu_make_configure", "warning",
                    "No GNU configure script found (required for C/C++ projects)") >>,
        IF Exists(root, <<"Makefile.am">>)
        THEN << Rec("gnu_make_automake", "pass", "Makefile.am (Automake) found") >>
        ELSE << Rec("gnu_make_automake", "warning",
                    "No Makefile.am found (recommended for GNU Make projects)") >>,
        IF Exists(root, <<"Makefile">>)
        THEN << Rec("gnu_make_makefile", "pass", "Makefile found") >>
        ELSE <<>> >>)

\* the marker checks with Gradle looked for whether or not Maven was found
_check_other_build_systems_gradle_apart(root) ==
    Concat(<<
        IF Exists(root, <<"setup.py">>) \/ Exists(root, <<"pyproject.toml">>)
        THEN << Rec("python_build", "pass", "Python build configuration found") >>
        ELSE <<>>,
        IF Exists(root, <<"go.mod">>)
        THEN << Rec("go_build", "pass", "Go module configuration found") >>
        ELSE <<>>,
        IF Exists(root, <<"Cargo.toml">>)
        THEN << Rec("rust_build", "pass", "Rust Cargo configuration found") >>
        ELSE <<>>,
        IF Exists(root, <<"pom.xml">>)
        THEN << Rec("java_maven", "pass", "Maven configuration found") >>
        ELSE <<>>,
        IF Exists(root, <<"build.gradle">>)
        THEN << Rec("java_gradle", "pass", "Gradle configuration found") >>
        ELSE <<>> >>)

_check_other_build_systems(root) ==
    Concat(<<
        IF Exists(root, <<"setup.py">>) \/ Exists(root, <<"pyproject.toml">>)
        THEN << Rec("python_build", "pass", "Python build configuration found") >>
        ELSE <<>>,
        IF Exists(root, <<"go.mod">>)
        THEN << Rec("go_build", "pass", "Go module configuration found") >>
        ELSE <<>>,
        IF Exists(root, <<"Cargo.toml">>)
        THEN << Rec("rust_build", "pass", "Rust Cargo configuration found") >>
        ELSE <<>>,
        IF Exists(root, <<"pom.xml">>)
        THEN << Rec("java_maven", "pass", "Maven configuration found") >>
        ELSE IF Exists(root, <<"build.gradle">>)
        THEN << Rec("java_gradle", "pass", "Gradle configuration found") >>
        ELSE <<>> >>)

\* validate with the parse error of the manifest left to leave the method
BuildSystemValidator_validate_parse_error_raised(root) ==
    IF fault["build"] # ""
    THEN Raise("PermissionError", fault["build"])
    ELSE IF Exists(root, <<"package.json">>) /\ JsonLoad(root, <<"package.json">>).raised
    THEN JsonLoad(root, <<"package.json">>)
    ELSE Return(Concat(<<
            IF Exists(root, <<"package.json">>)
            THEN _check_npm_requirements(root) \o _check_git_hooks(root)
            ELSE <<>>,
            _check_gnu_make(root),
            _check_other_build_systems(root) >>))

\* BuildSystemValidator.validate
BuildSystemValidator_validate(root) ==
    IF fault["build"] # ""
    THEN Raise("PermissionError", fault["build"])
    ELSE Return(Concat(<<
            IF Exists(root, <<"package.json">>)
            THEN _check_npm_requirements(root) \o _check_git_hooks(root)
            ELSE <<>>,
            _check_gnu_make(root),
            _check_other_build_systems(root) >>))

(***************************************************************************)
(* Code standards (core/code_standards.py).                                *)
(***************************************************************************)
MAX_LINE_LENGTH == 79

LANGUAGE_EXTENSIONS ==
    << <<"python", <<".py">> >>,
       <<"c", <<".c", ".h">> >>,
       <<"cpp", <<".cpp", ".cc", ".cxx", ".hpp", ".hh">> >>,
       <<"javascript", <<".js", ".jsx">> >>,
       <<"typescript", <<".ts", ".tsx">> >>,
       <<"go", <<".go">> >>,
       <<"java", <<".java">> >>,
       <<"shell", <<".sh", ".bash">> >>,
       <<"perl", <<".pl", ".pm">> >>,
       <<"php", <<".php">> >>,
       <<"powershell", <<".ps1", ".psm1", ".psd1">> >>,
       <<"html", <<".html", ".htm">> >>,
       <<"css", <<".css", ".scss", ".less">> >>,
       <<"awk", <<".awk">> >> >>

LINTERS ==
    [python |-> <<"ruff", "check">>,
     shell |-> <<"shellcheck">>,
     go |-> <<"golangci-lint", "run">>,
     javascript |-> <<"eslint">>,
     css |-> <<"stylelint">>,
     perl |-> <<"perlcritic">>,
     powershell |-> <<"PSScriptAnalyzer">>]

EXCLUDED_DIRS == {".git", "node_modules", "vendor", "venv", ".venv", "dist", "build"}

\* any(excluded in file_path.parts for excluded in excluded_dirs)
InExcludedDir(root, rel) ==
    \E i \in 1..Len(root \o rel) : (root \o rel)[i] \in EXCLUDED_DIRS

\* the extensions of LANGUAGE_EXTENSIONS, one after the other (the code
\* collects them in a set and iterates it)
SourceExtensions ==
    Concat([i \in 1..Len(LANGUAGE_EXTENSIONS) |-> LANGUAGE_EXTENSIONS[i][2]])

_get_source_files(root) ==
    LET source_files ==
            Concat([i \in 1..Len(SourceExtensions) |->
                        Rglob(root, SourceExtensions[i])])
    IN  SelectSeq(source_files, LAMBDA rel : ~InExcludedDir(root, rel))

_detect_languages(root) ==
    LET detected(i) ==
            \E j \in 1..Len(LANGUAGE_EXTENSIONS[i][2]) :
                Rglob(root, LANGUAGE_EXTENSIONS[i][2][j]) # <<>>
        languages == [i \in 1..Len(LANGUAGE_EXTENSIONS) |-> LANGUAGE_EXTENSIONS[i][1]]
        index == [i \in 1..Len(LANGUAGE_EXTENSIONS) |-> i]
    IN  [k \in 1..Len(SelectSeq(index, detected)) |->
            languages[SelectSeq(index, detected)[k]]]

EDITORCONFIG_CHECKS ==
    << <<"end_of_line = lf", "Unix line endings (LF)">>,
       <<"charset = utf-8", "UTF-8 encoding">>,
       <<"indent_style = space", "Space indentation">>,
       <<"trim_trailing_whitespace = true", "Trim trailing whitespace">>,
       <<"insert_final_newline = true", "Final newline">> >>

_check_editorconfig(root) ==
    IF ReadableText(root, <<".editorconfig">>)
    THEN [i \in 1..Len(EDITORCONFIG_CHECKS) |->
            LET setting == EDITORCONFIG_CHECKS[i][1]
                description == EDITORCONFIG_CHECKS[i][2]
            IN  IF setting \in Text(root, <<".editorconfig">>).contains
                THEN Rec("editorconfig_" \o FirstWord(setting), "pass",
                         ".editorconfig specifies: " \o description)
                ELSE Rec("editorconfig_" \o FirstWord(setting), "warning",
                         ".editorconfig missing: " \o description)]
    ELSE << Rec("editorconfig", "fail",
                "Error reading .editorconfig: "
                    \o ReadError(root, <<".editorconfig">>)) >>

\* the aggregate outcome of one formatting property: fail, listing the first
\* five offending places, or pass, or nothing when no file was checked
\* the aggregate with the ellipsis put from five offenders on
Aggregate_ellipsis_from_five(check, offending, files_checked, fail_prefix, pass_message) ==
    IF offending # <<>>
    THEN << Rec(check, "fail",
                fail_prefix \o Join(", ", Prefix(offending, 5))
                    \o (IF Len(offending) >= 5 THEN "..." ELSE "")) >>
    ELSE IF files_checked > 0
    THEN << Rec(check, "pass", pass_message) >>
    ELSE <<>>

Aggregate(check, offending, files_checked, fail_prefix, pass_message) ==
    IF offending # <<>>
    THEN << Rec(check, "fail",
                fail_prefix \o Join(", ", Prefix(offending, 5))
                    \o (IF Len(offending) > 5 THEN "..." ELSE "")) >>
    ELSE IF files_checked > 0
    THEN << Rec(check, "pass", pass_message) >>
    ELSE <<>>

_check_line_endings(root) ==
    LET files == _get_source_files(root)
        files_checked == Len(files)
        files_with_crlf ==
            SelectSeq(files, LAMBDA rel :
                ReadableBytes(root, rel) /\ Text(root, rel).crlf)
    IN  Aggregate("line_endings",
                  [i \in 1..Len(files_with_crlf) |-> PathStr(files_with_crlf[i])],
                  files_checked,
                  "Files with Windows line endings (CRLF): ",
                  "All " \o ToString(files_checked)
                      \o " source files use Unix line endings (LF)")

_check_encoding(root) ==
    LET files == _get_source_files(root)
        files_checked == Len(files)
        files_with_issues ==
            SelectSeq(files, LAMBDA rel :
                ReadableBytes(root, rel) /\ ~Text(root, rel).utf8)
    IN  Aggregate("encoding",
                  [i \in 1..Len(files_with_issues) |-> PathStr(files_with_issues[i])],
                  files_checked,
                  "Files with non-UTF-8 encoding: ",
                  "All " \o ToString(files_checked)
                      \o " source files use UTF-8 encoding")

\* the violations of one file, a line of exactly the limit counted as one
LongLines_from_the_limit(root, rel) ==
    LET lines == IF ReadableText(root, rel) THEN Text(root, rel).lines ELSE <<>>
        line_nums == [i \in 1..Len(lines) |-> i]
        long == SelectSeq(line_nums, LAMBDA n : lines[n].len >= MAX_LINE_LENGTH)
    IN  [k \in 1..Len(long) |->
            PathStr(rel) \o ":" \o ToString(long[k])
                \o " (" \o ToString(lines[long[k]].len) \o " chars)"]

\* the violations of one file: "file:line (length chars)" for each long line
LongLines(root, rel) ==
    LET lines == IF ReadableText(root, rel) THEN Text(root, rel).lines ELSE <<>>
        line_nums == [i \in 1..Len(lines) |-> i]
        long == SelectSeq(line_nums, LAMBDA n : lines[n].len > MAX_LINE_LENGTH)
    IN  [k \in 1..Len(long) |->
            PathStr(rel) \o ":" \o ToString(long[k])
                \o " (" \o ToString(lines[long[k]].len) \o " chars)"]

_check_line_length(root) ==
    LET files == _get_source_files(root)
        files_checked == Len(files)
        violations == Concat([i \in 1..Len(files) |-> LongLines(root, files[i])])
    IN  Aggregate("line_length", violations, files_checked,
                  "Lines exceeding " \o ToString(MAX_LINE_LENGTH) \o " characters: ",
                  "All lines in " \o ToString(files_checked)
                      \o " source files within " \o ToString(MAX_LINE_LENGTH)
                      \o " character limit")

\* the skip taken for every file name that has a suffix at all
IsMakefile_any_suffix(rel) ==
    \/ rel[Len(rel)] \in {"Makefile", "makefile"}
    \/ \E i \in 2..Len(rel[Len(rel)]) : SubSeq(rel[Len(rel)], i, i) = "."

\* file_path.name in ["Makefile", "makefile"] or file_path.suffix == ".mk"
IsMakefile(rel) ==
    \/ rel[Len(rel)] \in {"Makefile", "makefile"}
    \/ (EndsWith(rel[Len(rel)], ".mk") /\ Len(rel[Len(rel)]) > 3)

_check_indentation(root) ==
    LET files == SelectSeq(_get_source_files(root), LAMBDA rel : ~IsMakefile(rel))
        files_checked == Len(files)
        files_with_tabs ==
            SelectSeq(files, LAMBDA rel :
                /\ ReadableText(root, rel)
                /\ \E i \in 1..Len(Text(root, rel).lines) :
                        Text(root, rel).lines[i].tab)
    IN  Aggregate("indentation",
                  [i \in 1..Len(files_with_tabs) |-> PathStr(files_with_tabs[i])],
                  files_checked,
                  "Files with tab indentation: ",
                  "All " \o ToString(files_checked)
                      \o " source files use space indentation")

_check_trailing_whitespace(root) ==
    LET files == _get_source_files(root)
        files_checked == Len(files)
        files_with_trailing ==
            SelectSeq(files, LAMBDA rel :
                /\ ReadableText(root, rel)
                /\ \E i \in 1..Len(Text(root, rel).lines) :
                        Text(root, rel).lines[i].trail)
    IN  Aggregate("trailing_whitespace",
                  [i \in 1..Len(files_with_trailing) |->
                        PathStr(files_with_trailing[i])],
                  files_checked,
                  "Files with trailing whitespace: ",
                  "No trailing whitespace found in " \o ToString(files_checked)
                      \o " source files")

\* the outcome of one linter: not found, or its exit status
LinterOutcome(language) ==
    LET linter_cmd == LINTERS[language]
        result == Tool(linter_cmd[1])
        output == IF result.stdout # "" THEN result.stdout ELSE result.stderr
    IN  IF ~result.found
        THEN Rec("linter_" \o language, "warning",
                 Capitalize(language) \o " linter not available: " \o linter_cmd[1])
        ELSE IF result.error # ""
        THEN Rec("linter_" \o language, "warning",
                 "Could not run " \o language \o " linter: " \o result.error)
        ELSE IF result.returncode = 0
        THEN Rec("linter_" \o language, "pass",
                 Capitalize(language) \o " linter passed")
        ELSE Rec("linter_" \o language, "fail",
                 Capitalize(language) \o " linter found issues: "
                     \o Prefix(output, 200) \o "...")

_run_linters(root) ==
    LET with_linter ==
            SelectSeq(_detect_languages(root), LAMBDA l : l \in DOMAIN LINTERS)
    IN  [i \in 1..Len(with_linter) |-> LinterOutcome(with_linter[i])]

\* CodeStandardsValidator.validate
CodeStandardsValidator_validate(root) ==
    IF fault["code"] # ""
    THEN Raise("PermissionError", fault["code"])
    ELSE Return(Concat(<<
            IF Exists(root, <<".editorconfig">>)
            THEN _check_editorconfig(root)
            ELSE <<>>,
            _check_line_endings(root),
            _check_encoding(root),
            _check_line_length(root),
            _check_indentation(root),
            _check_trailing_whitespace(root),
            _run_linters(root) >>))

(***************************************************************************)
(* Security (core/security.py).                                            *)
(***************************************************************************)
SECURITY_FILES ==
    << << <<".github", "SECURITY.md">>, "Security policy">>,
       << <<".github", "dependabot.yml">>, "Dependabot configuration">>,
       << <<".github", "workflows", "codeql.yml">>, "CodeQL workflow">> >>

\* the kinds of SENSITIVE_PATTERNS, in the order the patterns are tried
SENSITIVE_PATTERNS ==
    <<"API key", "Token", "Secret", "AWS Access Key", "AWS Secret Key",
      "Private Key", "PGP Private Key", "Database URL with credentials",
      "Hardcoded password", "Hardcoded password">>

SAST_TOOLS ==
    [python |-> <<"bandit", "-r">>,
     go |-> <<"gosec", "./...">>,
     javascript |-> <<"eslint", "--ext", ".js,.jsx", ".">>,
     java |-> <<"spotbugs", "-textui">>,
     ruby |-> <<"brakeman">>,
     php |-> <<"psalm", "--show-info=false">>]

\* timeout=60 of the SAST run
SAST_TIMEOUT == 60

\* more than minimal content
MINIMAL_SIZE == 50

\* _check_security_files naming its outcomes as _check_github_files does
_check_security_files_named_github(root) ==
    [i \in 1..Len(SECURITY_FILES) |->
        LET filepath == SECURITY_FILES[i][1]
            description == SECURITY_FILES[i][2]
        IN  IF Exists(root, filepath)
            THEN IF StSize(root, filepath) > MINIMAL_SIZE
                 THEN Rec("github_file_" \o Underscored(filepath), "pass",
                          "Security file exists: " \o PathStr(filepath))
                 ELSE Rec("github_file_" \o Underscored(filepath), "warning",
                          "Security file exists but appears minimal: "
                              \o PathStr(filepath))
            ELSE Rec("github_file_" \o Underscored(filepath), "fail",
                     "Missing security file: " \o PathStr(filepath)
                         \o " (" \o description \o ")")]

_check_security_files(root) ==
    [i \in 1..Len(SECURITY_FILES) |->
        LET filepath == SECURITY_FILES[i][1]
            description == SECURITY_FILES[i][2]
        IN  IF Exists(root, filepath)
            THEN IF StSize(root, filepath) > MINIMAL_SIZE
                 THEN Rec("security_file_" \o Underscored(filepath), "pass",
                          "Security file exists: " \o PathStr(filepath))
                 ELSE Rec("security_file_" \o Underscored(filepath), "warning",
                          "Security file exists but appears minimal: "
                              \o PathStr(filepath))
            ELSE Rec("security_file_" \o Underscored(filepath), "fail",
                     "Missing security file: " \o PathStr(filepath)
                         \o " (" \o description \o ")")]

SCANNED_EXTENSIONS ==
    <<".py", ".js", ".java", ".go", ".rb", ".php", ".sh", ".yml", ".yaml", ".json">>

\* the first pattern of SENSITIVE_PATTERNS that matches the file, 0 if none
FirstPattern(root, rel) ==
    LET found == IF ReadableText(root, rel) THEN Text(root, rel).sensitive ELSE {}
        hits == { i \in 1..Len(SENSITIVE_PATTERNS) : SENSITIVE_PATTERNS[i] \in found }
    IN  IF hits = {} THEN 0
        ELSE CHOOSE i \in hits : \A j \in hits : i <= j

_check_sensitive_data(root) ==
    LET source_files ==
            Concat([i \in 1..Len(SCANNED_EXTENSIONS) |->
                        Rglob(root, SCANNED_EXTENSIONS[i])])
        flagged ==
            SelectSeq(source_files, LAMBDA rel :
                ~InExcludedDir(root, rel) /\ FirstPattern(root, rel) # 0)
        found_issues ==
            [i \in 1..Len(flagged) |->
                PathStr(flagged[i]) \o " ("
                    \o SENSITIVE_PATTERNS[FirstPattern(root, flagged[i])] \o ")"]
    IN  IF found_issues # <<>>
        THEN << Rec("sensitive_data", "fail",
                    "Potential sensitive data found in: "
                        \o Join(", ", Prefix(found_issues, 3))
                        \o (IF Len(found_issues) > 3 THEN "..." ELSE "")) >>
        ELSE << Rec("sensitive_data", "pass",
                    "No obvious sensitive data patterns found") >>

_check_commit_signing ==
    LET git == platform.git
        signed == SelectSeq(git.commits, LAMBDA g : g \in {"G", "U", "X", "Y", "R"})
        signed_count == Len(signed)
        unsigned_count == Len(git.commits) - Len(signed)
    IN  IF git.error # ""
        THEN << Rec("commit_signing", "warning",
                    "Could not check commit signing: " \o git.error) >>
        ELSE IF git.returncode # 0
        THEN << Rec("commit_signing", "warning",
                    "Could not check commit signing (not a git repository?)") >>
        ELSE IF unsigned_count = 0 /\ signed_count > 0
        THEN << Rec("commit_signing", "pass",
                    "All recent commits are signed (" \o ToString(signed_count)
                        \o "/" \o ToString(signed_count) \o ")") >>
        ELSE IF signed_count > 0
        THEN << Rec("commit_signing", "warning",
                    "Some commits are unsigned (" \o ToString(unsigned_count)
                        \o "/" \o ToString(signed_count + unsigned_count) \o ")") >>
        ELSE << Rec("commit_signing", "fail",
                    "No signed commits found in recent history") >>

_check_dependencies(root) ==
    Concat(<<
        IF Exists(root, <<"package.json">>)
        THEN IF Exists(root, <<"package-lock.json">>)
             THEN << Rec("npm_lockfile", "pass",
                         "package-lock.json exists for dependency pinning") >>
             ELSE << Rec("npm_lockfile", "fail",
                         "Missing package-lock.json for dependency pinning") >>
        ELSE <<>>,
        IF Glob(root, <<>>, ".py") # <<>>
        THEN IF Exists(root, <<"requirements.txt">>) \/ Exists(root, <<"Pipfile.lock">>)
             THEN << Rec("python_dependencies", "pass",
                         "Python dependency file found") >>
             ELSE << Rec("python_dependencies", "warning",
                         "No requirements.txt or Pipfile.lock found for Python project") >>
        ELSE <<>>,
        IF Exists(root, <<"go.mod">>)
        THEN IF Exists(root, <<"go.sum">>)
             THEN << Rec("go_lockfile", "pass",
                         "go.sum exists for dependency pinning") >>
             ELSE << Rec("go_lockfile", "fail",
                         "Missing go.sum for dependency pinning") >>
        ELSE <<>> >>)

\* the outcomes of one workflow file
WorkflowOutcomes(root, rel) ==
    LET name == rel[Len(rel)]
        content == Text(root, rel).contains
    IN  IF ~ReadableText(root, rel)
        THEN << Rec("workflow_file_" \o name, "fail",
                    "Error reading workflow " \o name \o ": "
                        \o ReadError(root, rel)) >>
        ELSE
          (IF "permissions:" \in content
           THEN IF "contents: read" \in content \/ "permissions: read-all" \in content
                THEN << Rec("workflow_permissions_" \o name, "pass",
                            "Workflow " \o name \o " has restricted permissions") >>
                ELSE << Rec("workflow_permissions_" \o name, "warning",
                            "Workflow " \o name \o " may have excessive permissions") >>
           ELSE << Rec("workflow_permissions_" \o name, "warning",
                       "Workflow " \o name
                           \o " does not explicitly set permissions") >>)
          \o
          (IF "${{ secrets." \in content /\ "GITHUB_TOKEN" \notin content
           THEN << Rec("workflow_secrets_" \o name, "warning",
                       "Workflow " \o name
                           \o " uses custom secrets - ensure they are properly secured") >>
           ELSE <<>>)

_check_github_actions_security(root) ==
    LET workflows_dir == <<".github", "workflows">>
        workflow_files ==
            Glob(root, workflows_dir, ".yml") \o Glob(root, workflows_dir, ".yaml")
    IN  IF ~Exists(root, workflows_dir)
        THEN <<>>
        ELSE Concat([i \in 1..Len(workflow_files) |->
                        WorkflowOutcomes(root, workflow_files[i])])

SAST_LANGUAGES ==
    << <<"python", <<".py">> >>,
       <<"go", <<".go">> >>,
       <<"javascript", <<".js", ".jsx">> >>,
       <<"java", <<".java">> >>,
       <<"ruby", <<".rb">> >>,
       <<"php", <<".php">> >> >>

\* the SAST outcome with a timed-out scan recorded as a failure
SastOutcome_timeout_as_fail(language) ==
    LET tool_cmd == SAST_TOOLS[language]
        result == Tool(tool_cmd[1])
        output == IF result.stdout # "" THEN result.stdout ELSE result.stderr
    IN  IF ~result.found
        THEN Rec("sast_" \o language, "warning",
                 Capitalize(language) \o " SAST tool not available: " \o tool_cmd[1])
        ELSE IF result.error # ""
        THEN Rec("sast_" \o language, "warning",
                 "Could not run " \o language \o " SAST: " \o result.error)
        ELSE IF result.seconds > SAST_TIMEOUT
        THEN Rec("sast_" \o language, "fail",
                 Capitalize(language) \o " SAST scan timed out")
        ELSE IF result.returncode = 0
        THEN Rec("sast_" \o language, "pass",
                 Capitalize(language) \o " SAST scan passed")
        ELSE Rec("sast_" \o language, "fail",
                 Capitalize(language) \o " SAST found issues: "
                     \o Prefix(output, 200) \o "...")

\* the outcome of one SAST tool: not found, timed out, or its exit status
SastOutcome(language) ==
    LET tool_cmd == SAST_TOOLS[language]
        result == Tool(tool_cmd[1])
        output == IF result.stdout # "" THEN result.stdout ELSE result.stderr
    IN  IF ~result.found
        THEN Rec("sast_" \o language, "warning",
                 Capitalize(language) \o " SAST tool not available: " \o tool_cmd[1])
        ELSE IF result.error # ""
        THEN Rec("sast_" \o language, "warning",
                 "Could not run " \o language \o " SAST: " \o result.error)
        ELSE IF result.seconds > SAST_TIMEOUT
        THEN Rec("sast_" \o language, "warning",
                 Capitalize(language) \o " SAST scan timed out")
        ELSE IF result.returncode = 0
        THEN Rec("sast_" \o language, "pass",
                 Capitalize(language) \o " SAST scan passed")
        ELSE Rec("sast_" \o language, "fail",
                 Capitalize(language) \o " SAST found issues: "
                     \o Prefix(output, 200) \o "...")

_run_sast_tools(root) ==
    LET detected(i) ==
            \E j \in 1..Len(SAST_LANGUAGES[i][2]) :
                Rglob(root, SAST_LANGUAGES[i][2][j]) # <<>>
        index == [i \in 1..Len(SAST_LANGUAGES) |-> i]
        detected_languages ==
            [k \in 1..Len(SelectSeq(index, detected)) |->
                SAST_LANGUAGES[SelectSeq(index, detected)[k]][1]]
        with_tool ==
            SelectSeq(detected_languages, LAMBDA l : l \in DOMAIN SAST_TOOLS)
    IN  [i \in 1..Len(with_tool) |-> SastOutcome(with_tool[i])]

\* SecurityValidator.validate
SecurityValidator_validate(root) ==
    IF fault["security"] # ""
    THEN Raise("PermissionError", fault["security"])
    ELSE Return(Concat(<<
            _check_security_files(root),
            _check_sensitive_data(root),
            _check_commit_signing,
            _check_dependencies(root),
            _check_github_actions_security(root),
            _run_sast_tools(root) >>))

(***************************************************************************)
(* The result model (core/checker.py, ValidationResult).                   *)
(***************************************************************************)
\* ValidationResult.__init__
ValidationResult == [passed |-> <<>>, failed |-> <<>>, warnings |-> <<>>, errors |-> <<>>]

add_pass(r, check_name, message) ==
    [r EXCEPT !.passed =
        Append(@, [check |-> check_name,
                   message |-> IF message # "" THEN message ELSE "Check passed"])]

add_fail(r, check_name, message) ==
    [r EXCEPT !.failed = Append(@, [check |-> check_name, message |-> message])]

\* add_warning with the entry put in front of the bucket
add_warning_in_front(r, check_name, message) ==
    [r EXCEPT !.warnings = <<[check |-> check_name, message |-> message]>> \o @]

add_warning(r, check_name, message) ==
    [r EXCEPT !.warnings = Append(@, [check |-> check_name, message |-> message])]

add_error(r, check_name, message) ==
    [r EXCEPT !.errors = Append(@, [check |-> check_name, message |-> message])]

\* is_passing that also wants the warnings bucket empty
is_passing_without_warnings(r) ==
    Len(r.failed) = 0 /\ Len(r.errors) = 0 /\ Len(r.warnings) = 0

is_passing(r) == Len(r.failed) = 0 /\ Len(r.errors) = 0

\* get_summary counting every bucket into total_checks
get_summary_of_all_buckets(r) ==
    [total_checks |-> Len(r.passed) + Len(r.failed) + Len(r.warnings) + Len(r.errors),
     passed |-> Len(r.passed),
     failed |-> Len(r.failed),
     warnings |-> Len(r.warnings),
     errors |-> Len(r.errors),
     is_passing |-> is_passing(r)]

get_summary(r) ==
    [total_checks |-> Len(r.passed) + Len(r.failed),
     passed |-> Len(r.passed),
     failed |-> Len(r.failed),
     warnings |-> Len(r.warnings),
     errors |-> Len(r.errors),
     is_passing |-> is_passing(r)]

(***************************************************************************)
(* The orchestrator (core/checker.py, PositronikalStandardsChecker).       *)
(***************************************************************************)
\* the chain with the warning branch recording a failure
Dispatch_warning_as_fail(r, result) ==
    IF result.status = "pass"
    THEN add_pass(r, result.check, result.message)
    ELSE IF result.status = "fail"
    THEN add_fail(r, result.check, result.message)
    ELSE IF result.status = "warning"
    THEN add_fail(r, result.check, result.message)
    ELSE r

\* the if / elif chain on result["status"]: no branch for any other status
Dispatch(r, result) ==
    IF result.status = "pass"
    THEN add_pass(r, result.check, result.message)
    ELSE IF result.status = "fail"
    THEN add_fail(r, result.check, result.message)
    ELSE IF result.status = "warning"
    THEN add_warning(r, result.check, result.message)
    ELSE r

RECURSIVE DispatchUpTo(_, _, _)
\* the report after the first n turns of the loop `for result in records`
DispatchUpTo(r, records, n) ==
    IF n = 0 THEN r
    ELSE Dispatch(DispatchUpTo(r, records, n - 1), records[n])

\* the report r with the entries of `more` appended, bucket by bucket
Extend(r, more) ==
    [passed |-> r.passed \o more.passed,
     failed |-> r.failed \o more.failed,
     warnings |-> r.warnings \o more.warnings,
     errors |-> r.errors \o more.errors]

\* the loop left at the first record whose status has no branch
Normalize_until_unknown(r, records) ==
    LET known(i) == records[i].status \in {"pass", "fail", "warning"}
        n == IF \A i \in 1..Len(records) : known(i)
             THEN Len(records)
             ELSE (CHOOSE i \in 1..Len(records) :
                      ~known(i) /\ \A j \in 1..(i - 1) : known(j)) - 1
    IN  Extend(r, DispatchUpTo(ValidationResult, records, n))

\* for result in records: dispatch it.  Every turn only appends to buckets
\* of self.results, so the loop leaves the report extended by what the same
\* turns append to an empty report; evaluated this way the nesting of the
\* loop does not grow with the length of the report
Normalize(r, records) ==
    Extend(r, DispatchUpTo(ValidationResult, records, Len(records)))

\* the handler recording the exception twice
RunCategory_error_twice(r, outcome, tag) ==
    IF outcome.raised
    THEN add_error(add_error(r, tag, outcome.text), tag, outcome.text)
    ELSE Normalize(r, outcome.value)

\* try: validate and normalize; except Exception as e: add_error(tag, str(e))
RunCategory(r, outcome, tag) ==
    IF outcome.raised
    THEN add_error(r, tag, outcome.text)
    ELSE Normalize(r, outcome.value)

_run_file_checks(root, r) ==
    RunCategory(r, FileRequirementsValidator_validate(root), "file_requirements")

\* what _run_file_checks hands to the logger: the announcement before the
\* try, the error in the except clause; the loop over the records logs nothing
_run_file_checks_log(outcome) ==
    << [level |-> "INFO", message |-> "Checking file requirements..."] >>
    \o (IF outcome.raised
        THEN << [level |-> "ERROR",
                 message |-> "Error during file checks: " \o outcome.text] >>
        ELSE <<>>)

_run_build_checks(root, r) ==
    RunCategory(r, BuildSystemValidator_validate(root), "build_system")

_run_code_checks(root, r) ==
    RunCategory(r, CodeStandardsValidator_validate(root), "code_standards")

_run_security_checks(root, r) ==
    RunCategory(r, SecurityValidator_validate(root), "security")

\* what a method that works on self.results leaves behind: the report as the
\* method left it, and whether the method returned or raised
Done(r) == [results |-> r, raised |-> FALSE]

Throw(r, type, text) == [results |-> r, raised |-> TRUE, type |-> type, text |-> text]

forensic_files == <<"METHODOLOGY.md", "VALIDATION.md", "LEGAL.md">>

\* the turn recording a missing file as a warning, as the recommended-files
\* check does
ForensicProbe_missing_as_warning(root, r, filename) ==
    IF Exists(root, <<filename>>)
    THEN add_pass(r, "forensic_file_" \o filename,
                  "Required forensic documentation file exists: " \o filename)
    ELSE add_warning(r, "forensic_file_" \o filename,
                     "Missing required forensic documentation: " \o filename)

\* one turn of the loop over forensic_files
ForensicProbe(root, r, filename) ==
    IF Exists(root, <<filename>>)
    THEN add_pass(r, "forensic_file_" \o filename,
                  "Required forensic documentation file exists: " \o filename)
    ELSE add_fail(r, "forensic_file_" \o filename,
                  "Missing required forensic documentation: " \o filename)

RECURSIVE ForensicUpTo(_, _, _)
\* the report after the first n files of forensic_files were probed
ForensicUpTo(root, r, n) ==
    IF n = 0 THEN r
    ELSE ForensicProbe(root, ForensicUpTo(root, r, n - 1), forensic_files[n])

\* no try / except here: when file_path.exists() raises (before Python 3.12
\* it re-raises every OSError but ENOENT, ENOTDIR, EBADF and ELOOP), the
\* first probe's exception leaves the method
_run_forensic_checks(root, r) ==
    IF fault["forensic"] # ""
    THEN Throw(r, "PermissionError", fault["forensic"])
    ELSE Done(ForensicUpTo(root, r, Len(forensic_files)))

\* check_all with the code category run before the build category
check_all_code_before_build(root, r, include_forensic) ==
    LET r1 == _run_file_checks(root, r)
        r2 == _run_code_checks(root, r1)
        r3 == _run_build_checks(root, r2)
        r4 == _run_security_checks(root, r3)
    IN  IF include_forensic THEN _run_forensic_checks(root, r4) ELSE Done(r4)

check_all(root, r, include_forensic) ==
    LET r1 == _run_file_checks(root, r)
        r2 == _run_build_checks(root, r1)
        r3 == _run_code_checks(root, r2)
        r4 == _run_security_checks(root, r3)
    IN  IF include_forensic THEN _run_forensic_checks(root, r4) ELSE Done(r4)

check_files(root, r) == Done(_run_file_checks(root, r))

check_build(root, r) == Done(_run_build_checks(root, r))

check_code(root, r) == Done(_run_code_checks(root, r))

check_security(root, r) == Done(_run_security_checks(root, r))

check_forensic(root, r) == _run_forensic_checks(root, r)

(***************************************************************************)
(* The repositories and hosts the behaviours start from.                   *)
(***************************************************************************)
\* the file system holding exactly the given <<path, node>> entries
MkFs(entries) ==
    [p \in { e[1] : e \in entries } |-> (CHOOSE e \in entries : e[1] = p)[2]]

\* the repository of the tests' temp_repo fixture: three empty directories
\* and a README
TempRepo ==
    MkFs({ << <<>>, Dir >>,
           << <<"src">>, Dir >>,
           << <<"test">>, Dir >>,
           << <<"docs">>, Dir >>,
           << <<"README.md">>, File(60) >> })

\* the repository of the tests' compliant_repo fixture
CompliantRepo ==
    MkFs({ << <<>>, Dir >>,
           << <<"src">>, Dir >>,
           << <<"test">>, Dir >>,
           << <<"docs">>, Dir >>,
           << <<"README.md">>, File(60) >>,
           << <<"CONTRIBUTING.md">>, File(40) >>,
           << <<".gitignore">>, File(32) >>,
           << <<"LICENSE.md">>, File(31) >>,
           << <<"AUTHORS.md">>, File(24) >>,
           << <<"SECURITY.md">>, File(65) >>,
           << <<".editorconfig">>,
              TextFile(148, TRUE, FALSE, <<>>,
                  {"end_of_line = lf", "charset = utf-8", "indent_style = space",
                   "trim_trailing_whitespace = true", "insert_final_newline = true"},
                  {}) >>,
           << <<".github">>, Dir >>,
           << <<".github", "SECURITY.md">>, File(42) >>,
           << <<".github", "CODEOWNERS">>, File(12) >>,
           << <<".github", "ISSUE_TEMPLATE">>, Dir >>,
           << <<".github", "ISSUE_TEMPLATE", "bug_report.md">>, File(39) >>,
           << <<".github", "ISSUE_TEMPLATE", "feature_request.md">>, File(48) >>,
           << <<".github", "pull_request_template.md">>, File(27) >>,
           << <<".github", "workflows">>, Dir >>,
           << <<".github", "workflows", "ci.yml">>,
              TextFile(209, TRUE, FALSE, <<>>,
                  {"permissions:", "contents: read"}, {}) >>,
           << <<".github", "dependabot.yml">>, File(108) >>,
           << <<"package.json">>,
              JsonFile(315, {"husky", "lint-staged", "prettier"},
                  [n \in {"prepare", "pre-commit"} |->
                        IF n = "prepare" THEN "husky" ELSE "lint-staged"],
                  TRUE) >>,
           << <<".husky">>, Dir >>,
           << <<".husky", "pre-commit">>, File(25) >>,
           << <<".husky", "commit-msg">>, File(40) >>,
           << <<"src", "main.py">>,
              TextFile(126, TRUE, FALSE,
                  << Line(22, FALSE, FALSE), Line(23, FALSE, FALSE),
                     Line(0, FALSE, FALSE), Line(11, FALSE, FALSE),
                     Line(26, FALSE, FALSE), Line(0, FALSE, FALSE),
                     Line(26, FALSE, FALSE), Line(10, FALSE, FALSE) >>,
                  {}, {}) >> })

\* a host with no external tool installed and no git
BareHost(name) ==
    [os_name |-> name,
     tools |-> <<>>,
     git |-> [error |-> "[Errno 2] No such file or directory: 'git'",
              returncode |-> 0, commits |-> <<>>]]

\* a host with git, a passing ruff and a bandit that reports issues
DevHost(name) ==
    [os_name |-> name,
     tools |-> [t \in {"ruff", "bandit"} |->
                  IF t = "ruff"
                  THEN [found |-> TRUE, error |-> "", returncode |-> 0,
                        stdout |-> "All checks passed!", stderr |-> "",
                        seconds |-> 1]
                  ELSE [found |-> TRUE, error |-> "", returncode |-> 1,
                        stdout |-> "Issue: [B101:assert_used]", stderr |-> "",
                        seconds |-> 5]],
     git |-> [error |-> "", returncode |-> 0, commits |-> <<"G", "N">>]]

\* the starting points: a repository and the host it is checked on
Scenarios ==
    { [fs |-> TempRepo, platform |-> BareHost("posix")],
      [fs |-> CompliantRepo, platform |-> DevHost("posix")],
      [fs |-> CompliantRepo, platform |-> BareHost("nt")] }

ModuleCategories == {"files", "build", "code", "security"}

Categories == ModuleCategories \cup {"forensic"}

NoFault == [c \in Categories |-> ""]

(***************************************************************************)
(* The state machine.                                                      *)
(***************************************************************************)
Checkers == 1..MaxCheckers

NoChecker == [constructed |-> FALSE]

NoReport == [exists |-> FALSE]

None == [none |-> TRUE]

\* the record of the last operation: what was called on which object with
\* which argument, what it returned or raised, the report of the object as
\* it was before the call, and whether that report had been returned to a
\* caller before
Last(op, self, arg, outcome, before, handed) ==
    [op |-> op, self |-> self, arg |-> arg, outcome |-> outcome,
     before |-> before, handed |-> handed]

Init ==
    /\ \E s \in Scenarios : fs = s.fs /\ platform = s.platform
    /\ fault = NoFault
    /\ checker = [c \in Checkers |-> NoChecker]
    /\ results = [c \in Checkers |-> NoReport]
    /\ ret = Last("start", 0, None, Return(None), NoReport, FALSE)
    /\ returned = {}
    /\ runs = {}
    /\ ops = 0
    /\ edits = 0

\* the paths a caller hands to the constructor
Targets == { <<>>, <<"README.md">>, <<"nonexistent">> }

\* the constructor with the two tests in the other order
__init___is_dir_first(repo_path) ==
    IF ~IsDir(<<>>, repo_path)
    THEN Raise("ValueError",
               "Repository path is not a directory: " \o PathStr(repo_path))
    ELSE IF ~Exists(<<>>, repo_path)
    THEN Raise("FileNotFoundError",
               "Repository path not found: " \o PathStr(repo_path))
    ELSE Return([constructed |-> TRUE, repo_path |-> repo_path])

\* PositronikalStandardsChecker.__init__: what construction for `repo_path`
\* raises, or the new object's attributes
__init__(repo_path) ==
    IF ~Exists(<<>>, repo_path)
    THEN Raise("FileNotFoundError",
               "Repository path not found: " \o PathStr(repo_path))
    ELSE IF ~IsDir(<<>>, repo_path)
    THEN Raise("ValueError",
               "Repository path is not a directory: " \o PathStr(repo_path))
    ELSE Return([constructed |-> TRUE, repo_path |-> repo_path])

\* checker = PositronikalStandardsChecker(repo_path): the next object
Construct(c, repo_path) ==
    /\ ~checker[c].constructed
    /\ \A d \in Checkers : d < c => checker[d].constructed
    /\ LET made == __init__(repo_path)
       IN  /\ checker' = IF made.raised THEN checker
                         ELSE [checker EXCEPT ![c] = made.value]
           /\ results' = IF made.raised THEN results
                         ELSE [results EXCEPT ![c] = ValidationResult]
           /\ ret' = Last("__init__", c, repo_path,
                          IF made.raised THEN made ELSE Return(c),
                          NoReport, FALSE)
    /\ UNCHANGED <<fs, platform, fault, returned, runs, ops, edits>>

\* a check_* method of checker c: it works on the checker's report and
\* returns that report (the same object every time), or raises
Check(c, op, arg, done) ==
    /\ checker[c].constructed
    /\ ops < MaxOps
    /\ results' = [results EXCEPT ![c] = done.results]
    /\ ret' = Last(op, c, arg,
                   IF done.raised THEN Raise(done.type, done.text) ELSE Return(c),
                   results[c], c \in returned)
    /\ returned' = IF done.raised THEN returned ELSE returned \cup {c}
    /\ ops' = ops + 1
    /\ UNCHANGED <<fs, platform, fault, checker, edits>>

CheckAll(c, include_forensic) ==
    /\ checker[c].constructed
    /\ Check(c, "check_all", include_forensic,
             check_all(checker[c].repo_path, results[c], include_forensic))
    /\ runs' = IF ret'.outcome.raised THEN runs
               ELSE runs \cup
                    {[self |-> c, repo_path |-> checker[c].repo_path,
                      include_forensic |-> include_forensic, version |-> edits,
                      report |-> results'[c]]}

CheckFiles(c) ==
    /\ checker[c].constructed
    /\ Check(c, "check_files", None, check_files(checker[c].repo_path, results[c]))
    /\ UNCHANGED runs

CheckBuild(c) ==
    /\ checker[c].constructed
    /\ Check(c, "check_build", None, check_build(checker[c].repo_path, results[c]))
    /\ UNCHANGED runs

CheckCode(c) ==
    /\ checker[c].constructed
    /\ Check(c, "check_code", None, check_code(checker[c].repo_path, results[c]))
    /\ UNCHANGED runs

CheckSecurity(c) ==
    /\ checker[c].constructed
    /\ Check(c, "check_security", None,
             check_security(checker[c].repo_path, results[c]))
    /\ UNCHANGED runs

CheckForensic(c) ==
    /\ checker[c].constructed
    /\ Check(c, "check_forensic", None,
             check_forensic(checker[c].repo_path, results[c]))
    /\ UNCHANGED runs

\* an add_* method called on the report of checker c
Add(c, op, arg, after) ==
    /\ checker[c].constructed
    /\ ops < MaxOps
    /\ results' = [results EXCEPT ![c] = after]
    /\ ret' = Last(op, c, arg, Return(None), results[c], c \in returned)
    /\ ops' = ops + 1
    /\ UNCHANGED <<fs, platform, fault, checker, returned, runs, edits>>

AddPass(c, message) ==
    /\ checker[c].constructed
    /\ Add(c, "add_pass", <<"custom_check", message>>,
           add_pass(results[c], "custom_check", message))

AddFail(c) ==
    /\ checker[c].constructed
    /\ Add(c, "add_fail", <<"custom_check", "custom failure">>,
           add_fail(results[c], "custom_check", "custom failure"))

AddWarning(c) ==
    /\ checker[c].constructed
    /\ Add(c, "add_warning", <<"custom_check", "custom warning">>,
           add_warning(results[c], "custom_check", "custom warning"))

AddError(c) ==
    /\ checker[c].constructed
    /\ Add(c, "add_error", <<"custom_check", "custom error">>,
           add_error(results[c], "custom_check", "custom error"))

\* results.get_summary() on the report of checker c
GetSummary(c) ==
    /\ checker[c].constructed
    /\ ops < MaxOps
    /\ ret' = Last("get_summary", c, None, Return(get_summary(results[c])),
                   results[c], c \in returned)
    /\ ops' = ops + 1
    /\ UNCHANGED <<fs, platform, fault, checker, results, returned, runs, edits>>

\* something outside the program changes the repository or its host
Edit(what) ==
    /\ ops < MaxOps
    /\ ret' = Last("edit", 0, what, Return(None), NoReport, FALSE)
    /\ ops' = ops + 1
    /\ edits' = edits + 1
    /\ UNCHANGED <<platform, checker, results, returned, runs>>

\* a license file is added to the repository
AddLicense ==
    /\ <<"COPYING.md">> \notin DOMAIN fs
    /\ Edit("COPYING.md")
    /\ fs' = [p \in DOMAIN fs \cup {<<"COPYING.md">>} |->
                IF p = <<"COPYING.md">> THEN File(11) ELSE fs[p]]
    /\ UNCHANGED fault

\* the README is truncated to zero length
TruncateReadme ==
    /\ <<"README.md">> \in DOMAIN fs
    /\ fs[<<"README.md">>].size > 0
    /\ Edit("README.md")
    /\ fs' = [fs EXCEPT ![<<"README.md">>] = File(0)]
    /\ UNCHANGED fault

\* the path each category probes first
FirstProbe ==
    [cat \in Categories |->
        CASE cat = "files" -> "README.md"
          [] cat = "build" -> "package.json"
          [] cat = "code" -> ".editorconfig"
          [] cat = "security" -> ".github/SECURITY.md"
          [] cat = "forensic" -> "METHODOLOGY.md"]

\* the file system starts to refuse the probes of one category (the search
\* permission of a directory is withdrawn, a device fails): the category's
\* probes raise from then on
BreakCategory(cat) ==
    /\ fault[cat] = ""
    /\ Edit(cat)
    /\ fault' = [fault EXCEPT ![cat] =
                    "[Errno 13] Permission denied: '" \o FirstProbe[cat] \o "'"]
    /\ UNCHANGED fs

Next ==
    \/ \E c \in Checkers, p \in Targets : Construct(c, p)
    \/ \E c \in Checkers, f \in BOOLEAN : CheckAll(c, f)
    \/ \E c \in Checkers : CheckFiles(c)
    \/ \E c \in Checkers : CheckBuild(c)
    \/ \E c \in Checkers : CheckCode(c)
    \/ \E c \in Checkers : CheckSecurity(c)
    \/ \E c \in Checkers : CheckForensic(c)
    \/ \E c \in Checkers, m \in {"", "custom message"} : AddPass(c, m)
    \/ \E c \in Checkers : AddFail(c)
    \/ \E c \in Checkers : AddWarning(c)
    \/ \E c \in Checkers : AddError(c)
    \/ \E c \in Checkers : GetSummary(c)
    \/ AddLicense
    \/ TruncateReadme
    \/ \E cat \in Categories : BreakCategory(cat)

Spec == Init /\ [][Next]_vars

(***************************************************************************)
(* A survey: one category run at a time against each of a family of        *)
(* repositories, the way the tests of the repository build a tree, change  *)
(* it and check it with a new checker.                                     *)
(***************************************************************************)
\* the file system holding the given <<path, node>> entries, the root and
\* the directories above the entries
Tree(entries) ==
    LET paths == { e[1] : e \in entries }
        above == UNION { { SubSeq(p, 1, n) : n \in 0..(Len(p) - 1) } : p \in paths }
    IN  MkFs(entries \cup { <<d, Dir>> : d \in ({<<>>} \cup above) \ paths })

\* a file in the root that is missing, empty or has content
Placed(name, how) ==
    CASE how = "missing" -> {}
      [] how = "empty" -> { << <<name>>, File(0) >> }
      [] how = "content" -> { << <<name>>, File(12) >> }

\* every way of having each required file missing, empty or with content;
\* the repository with no file at all is one of them
RequiredRepos ==
    { Tree(UNION { Placed(REQUIRED_FILES[i][1], how[i]) :
                      i \in 1..Len(REQUIRED_FILES) }) :
        how \in [1..Len(REQUIRED_FILES) -> {"missing", "empty", "content"}] }

\* one, four or all of the recommended files
RecommendedRepos ==
    { Tree({ << <<RECOMMENDED_FILES[i][1]>>, File(12) >> : i \in S }) :
        S \in { T \in SUBSET (1..Len(RECOMMENDED_FILES)) :
                    Cardinality(T) \in {1, 4, 5} } }

\* a README and any of the license files
LicenseRepos ==
    { Tree({ << <<"README.md">>, File(60) >> }
           \cup { << <<LICENSE_FILES[i]>>, File(11) >> : i \in S }) :
        S \in SUBSET (1..Len(LICENSE_FILES)) }

\* any of the forensic documentation files
ForensicRepos ==
    { Tree({ << <<forensic_files[i]>>, File(38) >> : i \in S }) :
        S \in SUBSET (1..Len(forensic_files)) }

\* a package.json whose scripts "prepare" and "pre-commit" are each absent,
\* declared as the standards want them, or declared otherwise
Manifest(how) ==
    JsonFile(120, {"husky"},
             [n \in { m \in DOMAIN how : how[m] # "absent" } |->
                IF how[n] = "other" THEN "npx " \o n
                ELSE IF n = "prepare" THEN "husky" ELSE "lint-staged"],
             FALSE)

\* a manifest in each of these states, and manifests that are no JSON, alone
\* and with a hook and a Python build file beside them
ManifestRepos ==
    { Tree({ << <<"package.json">>, Manifest(how) >> }) :
        how \in [{"prepare", "pre-commit"} -> {"absent", "expected", "other"}] }
    \cup { Tree({ << <<"package.json">>, File(9) >> }),
           Tree({ << <<"package.json">>, File(9) >>,
                  << <<".husky", "pre-commit">>, ExecFile(25) >>,
                  << <<"setup.py">>, File(10) >> }) }

\* a two-line source text whose second line has the given length and may
\* hold a tab
Source(len, tab) ==
    TextFile(len + 12, TRUE, FALSE,
             << Line(10, FALSE, FALSE), Line(len, tab, FALSE) >>, {}, {})

\* source trees: a Python file with a line at, just over and well over the
\* limit, with and without a tab; Makefiles and a .mk file holding tabs; a
\* vendored file; two source files; a file that is not UTF-8
CodeRepos ==
    { Tree({ << <<"src", "test.py">>, Source(len, tab) >> }) :
        len \in {79, 80, 100}, tab \in BOOLEAN }
    \cup { Tree({ << <<"Makefile">>, Source(20, TRUE) >>,
                  << <<"src", "test.py">>, Source(20, FALSE) >> }),
           Tree({ << <<"Makefile">>, Source(20, TRUE) >> }),
           Tree({ << <<"rules.mk">>, Source(20, TRUE) >>,
                  << <<"src", "test.py">>, Source(20, FALSE) >> }),
           Tree({ << <<"node_modules", "dep.js">>, Source(100, TRUE) >>,
                  << <<"src", "test.py">>, Source(20, FALSE) >> }),
           Tree({ << <<"src", "test.py">>, Source(100, FALSE) >>,
                  << <<"src", "run.sh">>, Source(20, TRUE) >> }),
           Tree({ << <<"src", "blob.py">>,
                     TextFile(112, FALSE, FALSE,
                              << Line(10, FALSE, FALSE), Line(100, TRUE, FALSE) >>,
                              {}, {}) >> }) }

\* the compliant_repo fixture completed with the CodeQL workflow, so that
\* every file of the GitHub and security catalogs is there; the security
\* policy is the two-line text of the fixture (42 bytes), a text at the
\* size threshold, just above it, or longer
CompleteRepos ==
    { [p \in DOMAIN CompliantRepo \cup { <<".github", "workflows", "codeql.yml">> } |->
        CASE p = <<".github", "workflows", "codeql.yml">> ->
                TextFile(160, TRUE, FALSE, <<>>, {"permissions:", "contents: read"}, {})
          [] p = <<".github", "SECURITY.md">> -> File(size)
          [] OTHER -> CompliantRepo[p]] :
        size \in {42, 50, 51, 65} }

\* a source file with one defect of a kind: CR LF line endings, bytes that
\* are not UTF-8, a line of 100 characters, a tab, white space at the end
\* of a line; or with none
Defect(kind) ==
    CASE kind = "line_endings" ->
            TextFile(34, TRUE, TRUE,
                     << Line(10, FALSE, FALSE), Line(20, FALSE, FALSE) >>, {}, {})
      [] kind = "encoding" ->
            TextFile(32, FALSE, FALSE,
                     << Line(10, FALSE, FALSE), Line(20, FALSE, FALSE) >>, {}, {})
      [] kind = "line_length" -> Source(100, FALSE)
      [] kind = "indentation" -> Source(20, TRUE)
      [] kind = "trailing_whitespace" ->
            TextFile(32, TRUE, FALSE,
                     << Line(10, FALSE, FALSE), Line(20, FALSE, TRUE) >>, {}, {})
      [] OTHER -> Source(20, FALSE)

\* source trees for the aggregates: one, five or six files with the same
\* defect beside a clean file; one file with six long lines; two clean files
FormatRepos ==
    { Tree({ << <<"src", "f" \o ToString(i) \o ".py">>,
                Defect(IF i <= n THEN kind ELSE "none") >> : i \in 1..(n + 1) }) :
        kind \in {"line_endings", "encoding", "line_length", "indentation",
                  "trailing_whitespace"},
        n \in {1, 5, 6} }
    \cup { Tree({ << <<"src", "long.py">>,
                     TextFile(606, TRUE, FALSE,
                              [i \in 1..6 |-> Line(100, FALSE, FALSE)], {}, {}) >> }),
           Tree({ << <<"src", "f1.py">>, Defect("none") >>,
                  << <<"src", "f2.py">>, Defect("none") >> }) }

\* every way of having the build-system marker files in the root
MarkerRepos ==
    { Tree({ << <<name>>, File(20) >> : name \in present }) :
        present \in SUBSET {"setup.py", "pyproject.toml", "go.mod", "Cargo.toml",
                            "pom.xml", "build.gradle"} }

SurveyRepos ==
    RequiredRepos \cup RecommendedRepos \cup LicenseRepos \cup ForensicRepos
        \cup ManifestRepos \cup CodeRepos \cup CompleteRepos \cup FormatRepos
        \cup MarkerRepos

SurveyInit ==
    /\ fs \in SurveyRepos
    /\ platform = BareHost("posix")
    /\ fault = NoFault
    /\ checker = [c \in Checkers |-> NoChecker]
    /\ results = [c \in Checkers |-> NoReport]
    /\ ret = Last("start", 0, None, Return(None), NoReport, FALSE)
    /\ returned = {}
    /\ runs = {}
    /\ ops = 0
    /\ edits = 0

\* the lines of src/test.py
TestLines == fs[<<"src", "test.py">>].content.lines

\* a source file with a line over the limit is there to be edited
HasLongLine ==
    /\ <<"src", "test.py">> \in DOMAIN fs
    /\ \E i \in 1..Len(TestLines) : TestLines[i].len > 79

\* every line of src/test.py over the limit is shortened to the limit
ShortenLines ==
    /\ HasLongLine
    /\ Edit("src/test.py")
    /\ fs' = [fs EXCEPT ![<<"src", "test.py">>].content.lines =
                [i \in 1..Len(TestLines) |->
                    IF TestLines[i].len > 79
                    THEN [TestLines[i] EXCEPT !.len = 79]
                    ELSE TestLines[i]]]
    /\ UNCHANGED fault

\* every line of src/test.py over the limit is removed
RemoveLines ==
    /\ HasLongLine
    /\ Edit("src/test.py")
    /\ fs' = [fs EXCEPT ![<<"src", "test.py">>].content.lines =
                SelectSeq(TestLines, LAMBDA l : l.len <= 79)]
    /\ UNCHANGED fault

\* what a test double put in place of checker.file_validator returns from
\* validate: records with the three statuses, and records with others
Doubles ==
    { << Rec("double_first", "pass", "fine"),
         Rec("double_second", "skip", "not applicable"),
         Rec("double_third", "fail", "broken") >>,
      << Rec("double_first", "error", "could not check") >>,
      << Rec("double_first", "warning", "doubtful") >> }

\* checker.file_validator is replaced by a double whose validate returns
\* `records`, then check_files() is called
CheckFilesWith(c, records) ==
    /\ checker[c].constructed
    /\ Check(c, "check_files", [returned |-> records],
             Done(RunCategory(results[c], Return(records), "file_requirements")))
    /\ UNCHANGED runs

SurveyNext ==
    \/ Construct(1, <<>>)
    \/ CheckFiles(1)
    \/ CheckBuild(1)
    \/ CheckCode(1)
    \/ CheckSecurity(1)
    \/ CheckForensic(1)
    \/ \E records \in Doubles : CheckFilesWith(1, records)
    \/ AddLicense
    \/ ShortenLines
    \/ RemoveLines

Survey == SurveyInit /\ [][SurveyNext]_vars

(***************************************************************************)
(* The command line (cli.py): one invocation of main() in a process of    *)
(* its own, from the parsed arguments to the exit status.                  *)
(***************************************************************************)
\* str.lower() of the values the VERBOSE variable takes here
Lower(s) ==
    CASE s = "TRUE" -> "true"
      [] OTHER -> s

\* the lines printed for one bucket: its heading with the number of
\* entries, then "  - check: message" for each entry (the emoji in front of
\* the heading is left out)
Section(title, entries) ==
    IF entries = <<>> THEN <<>>
    ELSE << "", title \o " (" \o ToString(Len(entries)) \o "):" >>
            \o [k \in 1..Len(entries) |->
                    "  - " \o entries[k].check \o ": " \o entries[k].message]

\* print_report with the passed entries printed whatever VERBOSE is
print_report_passes_always(r, VERBOSE) ==
    LET summary == get_summary(r)
        rule == "============================================================"
    IN  << "", rule, "POSITRONIKAL STANDARDS VALIDATION REPORT", rule,
           "", "Summary:",
           "  Total Checks: " \o ToString(summary.total_checks),
           "  Passed: " \o ToString(summary.passed),
           "  Failed: " \o ToString(summary.failed),
           "  Warnings: " \o ToString(summary.warnings),
           "  Errors: " \o ToString(summary.errors) >>
        \o Section("FAILED CHECKS", r.failed)
        \o Section("WARNINGS", r.warnings)
        \o Section("ERRORS", r.errors)
        \o Section("PASSED CHECKS", r.passed)
        \o << "", rule,
              IF is_passing(r) THEN "VALIDATION PASSED" ELSE "VALIDATION FAILED",
              rule, "" >>

\* ValidationResult.print_report: the lines written to standard output;
\* VERBOSE is os.environ.get("VERBOSE", "")
print_report(r, VERBOSE) ==
    LET summary == get_summary(r)
        rule == "============================================================"
    IN  << "", rule, "POSITRONIKAL STANDARDS VALIDATION REPORT", rule,
           "", "Summary:",
           "  Total Checks: " \o ToString(summary.total_checks),
           "  Passed: " \o ToString(summary.passed),
           "  Failed: " \o ToString(summary.failed),
           "  Warnings: " \o ToString(summary.warnings),
           "  Errors: " \o ToString(summary.errors) >>
        \o Section("FAILED CHECKS", r.failed)
        \o Section("WARNINGS", r.warnings)
        \o Section("ERRORS", r.errors)
        \o (IF r.passed # <<>> /\ Lower(VERBOSE) = "true"
            THEN Section("PASSED CHECKS", r.passed) ELSE <<>>)
        \o << "", rule,
              IF is_passing(r) THEN "VALIDATION PASSED" ELSE "VALIDATION FAILED",
              rule, "" >>

\* the choices of --check
CheckTypes == {"all", "files", "build", "code", "security", "forensic"}

\* the parsed arguments: --forensic is tried with --check all, the only
\* place it is read
ParsedArgs ==
    { a \in [repository : Targets, check : CheckTypes, forensic : BOOLEAN,
             verbose : BOOLEAN, quiet : BOOLEAN, strict : BOOLEAN,
             json : BOOLEAN] :
        a.forensic => a.check = "all" }

\* the branch on args.check
RunChecks(args, root) ==
    CASE args.check = "all" -> check_all(root, ValidationResult, args.forensic)
      [] args.check = "files" -> check_files(root, ValidationResult)
      [] args.check = "build" -> check_build(root, ValidationResult)
      [] args.check = "code" -> check_code(root, ValidationResult)
      [] args.check = "security" -> check_security(root, ValidationResult)
      [] args.check = "forensic" -> check_forensic(root, ValidationResult)

\* the output step: the JSON document (as one structured item; its text is
\* json.dumps of it), the printed report, or nothing under --quiet
Output(args, root, r, VERBOSE) ==
    IF args.json
    THEN << [repository |-> PathStr(root), summary |-> get_summary(r),
             passed |-> r.passed, failed |-> r.failed,
             warnings |-> r.warnings, errors |-> r.errors] >>
    ELSE IF ~args.quiet THEN print_report(r, VERBOSE)
    ELSE <<>>

\* the exit status that also counts warnings under --strict
ExitStatus_warnings_count(args, r) ==
    IF args.strict /\ ~is_passing_without_warnings(r) THEN 1 ELSE 0

\* the exit status of a run that produced a report
ExitStatus(args, r) ==
    IF args.strict /\ ~is_passing(r) THEN 1 ELSE 0

\* what the process leaves behind: its exit status, what it wrote to
\* standard output and standard error (log lines apart), and the report
Exit(status, stdout, stderr, r) ==
    [status |-> status, stdout |-> stdout, stderr |-> stderr, report |-> r]

\* main(): `environ` is the value of VERBOSE when the process starts,
\* `interrupt` whether a KeyboardInterrupt arrives while the checks run
main(args, environ, interrupt) ==
    LET VERBOSE == IF args.verbose THEN "true" ELSE environ
        made == __init__(args.repository)
        done == RunChecks(args, args.repository)
    IN  IF made.raised
        THEN Exit(1, <<>>, << "Error: " \o made.text >>, NoReport)
        ELSE IF interrupt
        THEN Exit(130, <<>>, << "", "Interrupted by user" >>, NoReport)
        ELSE IF done.raised
        THEN Exit(1, <<>>, << "Unexpected error: " \o done.text >>, NoReport)
        ELSE Exit(ExitStatus(args, done.results),
                  Output(args, args.repository, done.results, VERBOSE),
                  <<>>, done.results)

\* one run of the command: the process starts, main() runs to its
\* sys.exit, and the process is gone
Main(args, interrupt) ==
    /\ ret.op # "main"
    /\ ret' = Last("main", 0, [args |-> args, interrupt |-> interrupt],
                   Return(main(args, platform.environ.VERBOSE, interrupt)),
                   NoReport, FALSE)
    /\ UNCHANGED <<fs, platform, fault, checker, results, returned, runs, ops, edits>>

\* a host whose environment sets VERBOSE to the value, or leaves it unset
\* ("")
CliHost(value) ==
    [os_name |-> "posix",
     tools |-> <<>>,
     git |-> [error |-> "[Errno 2] No such file or directory: 'git'",
              returncode |-> 0, commits |-> <<>>],
     environ |-> [VERBOSE |-> value]]

\* the repositories the command is run on: the two fixtures, and a tree
\* with one clean source file and the three forensic files
CliRepos ==
    { TempRepo, CompliantRepo,
      Tree({ << <<"src", "test.py">>, Source(20, FALSE) >>,
             << <<"METHODOLOGY.md">>, File(38) >>,
             << <<"VALIDATION.md">>, File(38) >>,
             << <<"LEGAL.md">>, File(38) >> }) }

CliInit ==
    /\ fs \in CliRepos
    /\ platform \in { CliHost(v) : v \in {"", "TRUE", "1"} }
    /\ fault = NoFault
    /\ checker = [c \in Checkers |-> NoChecker]
    /\ results = [c \in Checkers |-> NoReport]
    /\ ret = Last("start", 0, None, Return(None), NoReport, FALSE)
    /\ returned = {}
    /\ runs = {}
    /\ ops = 0
    /\ edits = 0

CliNext ==
    \/ \E args \in ParsedArgs, interrupt \in BOOLEAN : Main(args, interrupt)
    \/ \E cat \in {"build", "forensic"} : BreakCategory(cat)

Cli == CliInit /\ [][CliNext]_vars

(***************************************************************************)
(* The external tools: the code and security categories on hosts where    *)
(* each linter or SAST binary is missing, passes, reports issues, runs    *)
(* longer than the timeout or cannot be started.                          *)
(***************************************************************************)
\* what subprocess.run meets for a tool: no such binary, exit status 0,
\* exit status 1 with the issues on standard error, a run of 61 seconds
\* that ends with status 0, or a binary that may not be executed
ToolResult(how) ==
    CASE how = "missing" ->
            [found |-> FALSE, error |-> "", returncode |-> 0, stdout |-> "",
             stderr |-> "", seconds |-> 0]
      [] how = "passes" ->
            [found |-> TRUE, error |-> "", returncode |-> 0, stdout |-> "ok",
             stderr |-> "", seconds |-> 1]
      [] how = "fails" ->
            [found |-> TRUE, error |-> "", returncode |-> 1, stdout |-> "",
             stderr |-> "2 issues found", seconds |-> 1]
      [] how = "slow" ->
            [found |-> TRUE, error |-> "", returncode |-> 0, stdout |-> "ok",
             stderr |-> "", seconds |-> 61]
      [] how = "broken" ->
            [found |-> TRUE, error |-> "[Errno 13] Permission denied",
             returncode |-> 0, stdout |-> "", stderr |-> "", seconds |-> 0]

ToolHows == {"missing", "passes", "fails", "slow", "broken"}

\* the hosts: every way of having ruff, bandit and eslint
ToolHosts ==
    { [os_name |-> "posix",
       tools |-> [t \in {"ruff", "bandit", "eslint"} |-> ToolResult(how[t])],
       git |-> [error |-> "[Errno 2] No such file or directory: 'git'",
                returncode |-> 0, commits |-> <<>>]] :
        how \in [{"ruff", "bandit", "eslint"} -> ToolHows] }

\* a Python tree, and a tree with Python and JavaScript
ToolRepos ==
    { Tree({ << <<"src", "test.py">>, Source(20, FALSE) >> }),
      Tree({ << <<"src", "test.py">>, Source(20, FALSE) >>,
             << <<"web", "app.js">>, Source(20, FALSE) >> }) }

ToolsInit ==
    /\ fs \in ToolRepos
    /\ platform \in ToolHosts
    /\ fault = NoFault
    /\ checker = [c \in Checkers |-> NoChecker]
    /\ results = [c \in Checkers |-> NoReport]
    /\ ret = Last("start", 0, None, Return(None), NoReport, FALSE)
    /\ returned = {}
    /\ runs = {}
    /\ ops = 0
    /\ edits = 0

ToolsNext ==
    \/ Construct(1, <<>>)
    \/ CheckCode(1)
    \/ CheckSecurity(1)

Tools == ToolsInit /\ [][ToolsNext]_vars

(***************************************************************************)
(* What the properties speak about.                                        *)
(***************************************************************************)
Buckets == {"passed", "failed", "warnings", "errors"}

ModuleOps == {"check_files", "check_build", "check_code", "check_security"}

CheckOps == ModuleOps \cup {"check_forensic", "check_all"}

AddOps == {"add_pass", "add_fail", "add_warning", "add_error"}

\* the category a check_* method runs
OpCategory(op) ==
    CASE op = "check_files" -> "files"
      [] op = "check_build" -> "build"
      [] op = "check_code" -> "code"
      [] op = "check_security" -> "security"
      [] op = "check_forensic" -> "forensic"

\* what the category module's validate returns or raises for the repository
Validate(cat, root) ==
    CASE cat = "files" -> FileRequirementsValidator_validate(root)
      [] cat = "build" -> BuildSystemValidator_validate(root)
      [] cat = "code" -> CodeStandardsValidator_validate(root)
      [] cat = "security" -> SecurityValidator_validate(root)

\* the check id the orchestrator gives to the error entry of a category
ErrorTag(cat) ==
    CASE cat = "files" -> "file_requirements"
      [] cat = "build" -> "build_system"
      [] cat = "code" -> "code_standards"
      [] cat = "security" -> "security"

BucketOf(status) ==
    CASE status = "pass" -> "passed"
      [] status = "fail" -> "failed"
      [] status = "warning" -> "warnings"

\* the report the last operation worked on, the repository of its checker
Report == results[ret.self]

Root == checker[ret.self].repo_path

IsExtension(old, new) ==
    Len(old) <= Len(new) /\ SubSeq(new, 1, Len(old)) = old

\* the entries the last operation left in a bucket beyond those it found
Gain(bucket) ==
    SubSeq(Report[bucket], Len(ret.before[bucket]) + 1, Len(Report[bucket]))

\* sub occurs in seq as a run of adjacent entries
Contains(seq, sub) ==
    \E i \in 0..(Len(seq) - Len(sub)) : SubSeq(seq, i + 1, i + Len(sub)) = sub

\* what one category, run alone, leaves in an empty report
Segment(cat, root) ==
    CASE cat = "files" -> _run_file_checks(root, ValidationResult)
      [] cat = "build" -> _run_build_checks(root, ValidationResult)
      [] cat = "code" -> _run_code_checks(root, ValidationResult)
      [] cat = "security" -> _run_security_checks(root, ValidationResult)
      [] cat = "forensic" -> _run_forensic_checks(root, ValidationResult).results

\* the number of the records up to the i-th that have the i-th's status
Rank(records, i) ==
    Cardinality({ j \in 1..i : records[j].status = records[i].status })

(***************************************************************************)
(* The properties.                                                         *)
(***************************************************************************)
\* C1: for every report, however it was filled, is_passing is true exactly
\* when the failed bucket and the errors bucket are both empty, and emptying
\* the passed and the warnings buckets never changes its value.
C1_IsPassingIffNoFailedNoErrors ==
    \A c \in Checkers : checker[c].constructed =>
        LET r == results[c]
        IN  /\ is_passing(r) <=> (Len(r.failed) = 0 /\ Len(r.errors) = 0)
            /\ is_passing(r) = is_passing([r EXCEPT !.passed = <<>>, !.warnings = <<>>])

\* an add_* operation has left a report with passes and warnings and nothing
\* else, and the report is passing
C1_Witness ==
    /\ ret.op \in AddOps
    /\ Len(Report.passed) > 0
    /\ Len(Report.warnings) > 0
    /\ Len(Report.failed) = 0
    /\ Len(Report.errors) = 0
    /\ is_passing(Report)

\* C2: get_summary returns the lengths of the four buckets as passed, failed,
\* warnings and errors, total_checks as the passed plus the failed entries
\* only, and is_passing as the property gives it, for every reachable report;
\* the call leaves every bucket as it found it.
C2_SummaryCountsBuckets ==
    /\ \A c \in Checkers : checker[c].constructed =>
            LET r == results[c]
                s == get_summary(r)
            IN  /\ s.passed = Len(r.passed)
                /\ s.failed = Len(r.failed)
                /\ s.warnings = Len(r.warnings)
                /\ s.errors = Len(r.errors)
                /\ s.total_checks = Len(r.passed) + Len(r.failed)
                /\ s.is_passing = (Len(r.failed) = 0 /\ Len(r.errors) = 0)
    /\ ret.op = "get_summary" =>
            /\ Report = ret.before
            /\ ret.outcome.value.passed = Len(Report.passed)
            /\ ret.outcome.value.failed = Len(Report.failed)
            /\ ret.outcome.value.warnings = Len(Report.warnings)
            /\ ret.outcome.value.errors = Len(Report.errors)
            /\ ret.outcome.value.total_checks = Len(Report.passed) + Len(Report.failed)
            /\ ret.outcome.value.is_passing = is_passing(Report)

\* get_summary was called on a report that holds entries in the passed, the
\* failed and the warnings bucket
C2_Witness ==
    /\ ret.op = "get_summary"
    /\ Len(Report.passed) > 0
    /\ Len(Report.failed) > 0
    /\ Len(Report.warnings) > 0
    /\ ret.outcome.value.total_checks < Len(Report.passed) + Len(Report.failed) + Len(Report.warnings)

\* C3: when the validate of the category a check_* call runs returns records
\* whose statuses are all pass, fail or warning, the call leaves as many new
\* entries as there are records, the i-th record's check id and message are
\* the entry at the record's rank among the records of its status in the
\* bucket of that status, the entries the buckets held before stay in front,
\* and the errors bucket gains nothing.
C3_OneEntryPerRecord ==
    (ret.op \in ModuleOps /\ ~Validate(OpCategory(ret.op), Root).raised) =>
        LET records == Validate(OpCategory(ret.op), Root).value
        IN  (\A i \in 1..Len(records) : records[i].status \in {"pass", "fail", "warning"}) =>
                /\ \A b \in Buckets : IsExtension(ret.before[b], Report[b])
                /\ Len(Gain("passed")) + Len(Gain("failed")) + Len(Gain("warnings"))
                        = Len(records)
                /\ \A i \in 1..Len(records) :
                        LET gain == Gain(BucketOf(records[i].status))
                        IN  /\ Rank(records, i) <= Len(gain)
                            /\ gain[Rank(records, i)] =
                                    [check |-> records[i].check,
                                     message |-> records[i].message]
                /\ Gain("errors") = <<>>

\* a check_security call whose validate returned passes, failures and
\* warnings has filled the three buckets
C3_Witness ==
    /\ ret.op = "check_security"
    /\ ~SecurityValidator_validate(Root).raised
    /\ Len(Gain("passed")) > 0
    /\ Len(Gain("failed")) > 0
    /\ Len(Gain("warnings")) > 0

\* C4 as the claim states it: the error entry a category run records is
\* tagged with the name of the category, files, build, code or security.
C4_ErrorTaggedWithCategoryName ==
    (ret.op \in ModuleOps /\ Len(Report.errors) > Len(ret.before.errors)) =>
        /\ Gain("errors") = << [check |-> OpCategory(ret.op),
                                message |-> fault[OpCategory(ret.op)]] >>
        /\ Report.passed = ret.before.passed
        /\ Report.failed = ret.before.failed
        /\ Report.warnings = ret.before.warnings

\* C4, amended: a category run that records an error entry records exactly
\* one, whose check id is the tag of the category's module
\* (file_requirements, build_system, code_standards, security) and whose
\* message is the text of the exception, and the run adds nothing to passed,
\* failed or warnings; a check_all run records one such entry for each
\* category whose validate raised and no other error entry.
C4_SingleErrorEntry ==
    /\ (ret.op \in ModuleOps /\ Len(Report.errors) > Len(ret.before.errors)) =>
            /\ Gain("errors") = << [check |-> ErrorTag(OpCategory(ret.op)),
                                    message |-> fault[OpCategory(ret.op)]] >>
            /\ Report.passed = ret.before.passed
            /\ Report.failed = ret.before.failed
            /\ Report.warnings = ret.before.warnings
    /\ ret.op = "check_all" =>
            /\ Len(Gain("errors")) =
                    Cardinality({ cat \in ModuleCategories : fault[cat] # "" })
            /\ \A cat \in ModuleCategories : fault[cat] # "" =>
                    /\ Contains(Gain("errors"),
                                << [check |-> ErrorTag(cat), message |-> fault[cat]] >>)
                    /\ Segment(cat, Root).passed = <<>>
                    /\ Segment(cat, Root).failed = <<>>
                    /\ Segment(cat, Root).warnings = <<>>

\* check_build ran while the probes of the build category raised: the run
\* has recorded an error entry
C4_Witness ==
    /\ ret.op = "check_build"
    /\ fault["build"] # ""
    /\ Len(Report.errors) = Len(ret.before.errors) + 1

\* C5: when some category raises during check_all, check_all still returns
\* the report, and every category that did not raise, forensic included when
\* it was requested, has left its outcomes in the report.
C5_CheckAllSurvivesException ==
    (ret.op = "check_all" /\ \E cat \in Categories : fault[cat] # "") =>
        /\ ~ret.outcome.raised
        /\ \A cat \in ModuleCategories \cup (IF ret.arg THEN {"forensic"} ELSE {}) :
                fault[cat] = "" =>
                    \A b \in Buckets : Contains(Gain(b), Segment(cat, Root)[b])

\* C6: a check_all call that returns leaves in every bucket, behind the
\* entries the bucket held, the entries of the files category, then those of
\* build, of code and of security, and behind them those of forensic exactly
\* when forensic was requested.
C6_FixedCategoryOrder ==
    (ret.op = "check_all" /\ ~ret.outcome.raised) =>
        \A b \in Buckets :
            /\ IsExtension(ret.before[b], Report[b])
            /\ Gain(b) = Segment("files", Root)[b]
                            \o Segment("build", Root)[b]
                            \o Segment("code", Root)[b]
                            \o Segment("security", Root)[b]
                            \o (IF ret.arg THEN Segment("forensic", Root)[b] ELSE <<>>)

\* check_all with forensic requested has returned, and each of the five
\* categories has left entries in the report
C6_Witness ==
    /\ ret.op = "check_all"
    /\ ret.arg = TRUE
    /\ ~ret.outcome.raised
    /\ \A cat \in ModuleCategories : Len(Segment(cat, Root).passed) > 0
    /\ Len(Segment("forensic", Root).failed) > 0
    /\ Len(Gain("passed")) > Len(Segment("files", Root).passed)

\* C7: a construction for a path that does not exist raises
\* FileNotFoundError, one for a path that is no directory raises ValueError,
\* and neither leaves a checker or a report; no report exists, was returned
\* or was produced by a run without its checker having been constructed, and
\* every check_* call was made on a constructed checker.
C7_ConstructionFailsFast ==
    /\ (ret.op = "__init__" /\ ~Exists(<<>>, ret.arg)) =>
            /\ ret.outcome.raised
            /\ ret.outcome.type = "FileNotFoundError"
            /\ ~checker[ret.self].constructed
            /\ results[ret.self] = NoReport
    /\ (ret.op = "__init__" /\ Exists(<<>>, ret.arg) /\ ~IsDir(<<>>, ret.arg)) =>
            /\ ret.outcome.raised
            /\ ret.outcome.type = "ValueError"
            /\ ~checker[ret.self].constructed
            /\ results[ret.self] = NoReport
    /\ \A c \in Checkers : ~checker[c].constructed =>
            /\ results[c] = NoReport
            /\ c \notin returned
            /\ \A run \in runs : run.self # c
    /\ ret.op \in CheckOps \cup AddOps \cup {"get_summary"} =>
            checker[ret.self].constructed

\* a construction for the README, a file, has raised ValueError
C7_Witness ==
    /\ ret.op = "__init__"
    /\ ret.arg = <<"README.md">>
    /\ ret.outcome.raised
    /\ ret.outcome.type = "ValueError"
    /\ ~checker[ret.self].constructed

\* C8: a check_* or check_all call on a checker whose report was returned by
\* an earlier call leaves every bucket of that report as it was.
C8_ReturnedReportNeverChanges ==
    (ret.op \in CheckOps /\ ret.handed) => Report = ret.before

\* C9: two check_all runs with the same arguments against the same state of
\* the repository, on one checker or on two, return reports with the same
\* summary and the same ordered contents of the four buckets.
C9_CheckAllTwiceSameReport ==
    \A a \in runs, b \in runs :
        (/\ a.repo_path = b.repo_path
         /\ a.include_forensic = b.include_forensic
         /\ a.version = b.version) =>
            /\ get_summary(a.report) = get_summary(b.report)
            /\ a.report = b.report

\* C10: every step leaves each bucket of every report an extension of what
\* the bucket held before the step: the earlier entries in front, unchanged
\* and in their order.
C10_BucketsOnlyGrow ==
    [][\A c \in Checkers : checker[c].constructed =>
            \A b \in Buckets : IsExtension(results[c][b], results'[c][b])]_vars

\* an add_warning operation was made on a report whose warnings bucket held
\* entries of an earlier check, and the bucket has grown by one entry
C10_Witness ==
    /\ ret.op = "add_warning"
    /\ Len(ret.before.warnings) > 0
    /\ Len(Report.warnings) = Len(ret.before.warnings) + 1

\* the entries of a report, bucket after bucket
Entries(r) == r.passed \o r.failed \o r.warnings \o r.errors

\* C11: the report that one check_all call leaves on a newly constructed
\* checker, with or without forensic, whether the call returned or raised,
\* holds no two entries with the same check id in any of its buckets.
C11_CheckIdsUniqueInOneRun ==
    (ret.op = "check_all" /\ ret.before = ValidationResult) =>
        \A i, j \in 1..Len(Entries(Report)) :
            i # j => Entries(Report)[i].check # Entries(Report)[j].check

\* check_all with forensic ran on a new checker for a repository that has
\* the .github files, workflows and a manifest, and has filled three buckets
C11_Witness ==
    /\ ret.op = "check_all"
    /\ ret.arg
    /\ ret.before = ValidationResult
    /\ ~ret.outcome.raised
    /\ Exists(Root, <<".github", "workflows", "ci.yml">>)
    /\ Len(Entries(Report)) > 40
    /\ Len(Report.passed) > 0
    /\ Len(Report.failed) > 0
    /\ Len(Report.warnings) > 0

\* C12: when validate returns a record whose status is none of pass, fail
\* and warning, the category run rejects it (the call raises, or the record
\* is entered in a bucket of the report) or writes a warning or an error
\* about it to the log.
C12_UnknownStatusDiagnosed ==
    (ret.op = "check_files" /\ ret.arg # None) =>
        \A i \in 1..Len(ret.arg.returned) :
            ret.arg.returned[i].status \notin {"pass", "fail", "warning"} =>
                \/ ret.outcome.raised
                \/ \E b \in Buckets : \E k \in 1..Len(Gain(b)) :
                        Gain(b)[k].check = ret.arg.returned[i].check
                \/ \E k \in 1..Len(_run_file_checks_log(Return(ret.arg.returned))) :
                        _run_file_checks_log(Return(ret.arg.returned))[k].level
                            \in {"WARNING", "ERROR"}

\* the last operation was the given check_* method of a newly constructed
\* checker, with the validators the constructor made
FreshRun(op) ==
    /\ ret.op = op
    /\ ret.arg = None
    /\ ret.before = ValidationResult

\* the buckets in which the last operation entered the check id
Outcome(id) ==
    { b \in Buckets : \E k \in 1..Len(Gain(b)) : Gain(b)[k].check = id }

\* the number of entries with the check id that the last operation made
Count(id) ==
    Cardinality({ <<b, k>> \in Buckets \X (1..Len(Entries(Report))) :
                    k <= Len(Gain(b)) /\ Gain(b)[k].check = id })

\* C13: a file run enters each required file once: in passed when the file
\* exists with a size above zero, in warnings when it exists with size zero,
\* in failed when it is missing; and each recommended file once: in passed
\* when it exists, in warnings when it is missing.  For the repository with
\* no file every required file is in failed, every recommended file in
\* warnings, and the report is not passing.
C13_RequiredAndRecommendedFiles ==
    FreshRun("check_files") =>
        /\ \A f \in {"README.md", "CONTRIBUTING.md", ".gitignore"} :
              /\ Count("required_file_" \o f) = 1
              /\ Outcome("required_file_" \o f) =
                    IF <<f>> \notin DOMAIN fs THEN {"failed"}
                    ELSE IF fs[<<f>>].size = 0 THEN {"warnings"}
                    ELSE {"passed"}
        /\ \A f \in {"AUTHORS.md", "BUGS.md", "SECURITY.md", "USING.md",
                     ".editorconfig"} :
              /\ Count("recommended_file_" \o f) = 1
              /\ Outcome("recommended_file_" \o f) =
                    IF <<f>> \in DOMAIN fs THEN {"passed"} ELSE {"warnings"}
        /\ DOMAIN fs = {<<>>} =>
              /\ Len(Report.failed) >= 3
              /\ Len(Report.warnings) >= 5
              /\ ~is_passing(Report)
              /\ ~get_summary(Report).is_passing

\* a file run on a repository with one required file holding content, one
\* empty and one missing
C13_Witness ==
    /\ FreshRun("check_files")
    /\ Outcome("required_file_README.md") = {"passed"}
    /\ Outcome("required_file_CONTRIBUTING.md") = {"warnings"}
    /\ Outcome("required_file_.gitignore") = {"failed"}
    /\ Outcome("recommended_file_AUTHORS.md") = {"warnings"}

\* a file run on the repository with no file at all
C13_WitnessNoFiles ==
    /\ FreshRun("check_files")
    /\ DOMAIN fs = {<<>>}
    /\ Len(Report.failed) > 0

\* the license files the repository root holds
Licenses ==
    { f \in {"COPYING.md", "COPYING.LESSER.md", "LICENSE.md", "LICENSE.CC.md"} :
        <<f>> \in DOMAIN fs }

\* C14: a file run enters license_file exactly once: in passed when at least
\* one of the four license files is in the repository root, in failed when
\* none is.  So the run of a new checker made after a license file was added
\* to a repository that had none enters it in passed, not in failed.
C14_OneLicenseOutcome ==
    FreshRun("check_files") =>
        /\ Count("license_file") = 1
        /\ Outcome("license_file") =
                IF Licenses # {} THEN {"passed"} ELSE {"failed"}

\* COPYING.md was added to a repository that had no license file, and the
\* file run of a checker constructed afterwards has passed license_file
C14_Witness ==
    /\ FreshRun("check_files")
    /\ edits = 1
    /\ Licenses = {"COPYING.md"}
    /\ fs[<<"COPYING.md">>] = File(11)
    /\ <<"LICENSE.md">> \notin DOMAIN fs
    /\ Outcome("license_file") = {"passed"}

\* the scripts a parseable package.json in the repository root declares
DeclaredScripts == fs[<<"package.json">>].content.scripts

\* the package.json of the repository root is a file holding a JSON object
ManifestParses ==
    /\ <<"package.json">> \in DOMAIN fs
    /\ fs[<<"package.json">>].kind = "file"
    /\ fs[<<"package.json">>].content.type = "json"

\* C15: when the manifest is present and parses, a build run enters each of
\* the scripts prepare (expected "husky") and pre-commit (expected
\* "lint-staged") once: in passed when the manifest declares it with exactly
\* the expected value, in warnings when it declares it with another value,
\* in failed when it does not declare it.
C15_RequiredScripts ==
    (FreshRun("check_build") /\ ManifestParses) =>
        \A n \in {"prepare", "pre-commit"} :
            LET expected == IF n = "prepare" THEN "husky" ELSE "lint-staged"
            IN  /\ Count("npm_script_" \o n) = 1
                /\ Outcome("npm_script_" \o n) =
                      IF n \notin DOMAIN DeclaredScripts THEN {"failed"}
                      ELSE IF DeclaredScripts[n] = expected THEN {"passed"}
                      ELSE {"warnings"}

\* a build run on a manifest that declares prepare as expected and
\* pre-commit with another value
C15_Witness ==
    /\ FreshRun("check_build")
    /\ ManifestParses
    /\ Outcome("npm_script_prepare") = {"passed"}
    /\ Outcome("npm_script_pre-commit") = {"warnings"}

\* the package.json of the repository root is a file that is no JSON
ManifestMalformed ==
    /\ <<"package.json">> \in DOMAIN fs
    /\ fs[<<"package.json">>].kind = "file"
    /\ fs[<<"package.json">>].content.type # "json"

\* the entry of the failed bucket with the check id, made by the last
\* operation
FailedEntry(id) ==
    Gain("failed")[CHOOSE k \in 1..Len(Gain("failed")) : Gain("failed")[k].check = id]

\* C16: when the manifest is present and does not parse, a build run enters
\* package_json once, in failed, with a message that ends in the text of the
\* parser's error; it enters nothing in errors, and the checks that follow
\* the manifest's (the git hooks, the other build systems) are still made.
C16_MalformedManifestFails ==
    (FreshRun("check_build") /\ ManifestMalformed) =>
        /\ ~ret.outcome.raised
        /\ Count("package_json") = 1
        /\ Outcome("package_json") = {"failed"}
        /\ JsonLoad(Root, <<"package.json">>).text # ""
        /\ EndsWith(FailedEntry("package_json").message,
                    ": " \o JsonLoad(Root, <<"package.json">>).text)
        /\ Report.errors = <<>>
        /\ Count("git_hook_.husky_pre-commit") = 1
        /\ Count("git_hook_.husky_commit-msg") = 1
        /\ Outcome("git_hook_.husky_pre-commit") =
              IF <<".husky", "pre-commit">> \in DOMAIN fs THEN {"passed"} ELSE {"failed"}
        /\ <<"setup.py">> \in DOMAIN fs => Outcome("python_build") = {"passed"}

\* a build run on a repository whose manifest does not parse and which has a
\* hook and a Python build file
C16_Witness ==
    /\ FreshRun("check_build")
    /\ ManifestMalformed
    /\ Outcome("package_json") = {"failed"}
    /\ Outcome("git_hook_.husky_pre-commit") = {"passed"}
    /\ Outcome("python_build") = {"passed"}

\* C17: a forensic run enters forensic_file_METHODOLOGY.md,
\* forensic_file_VALIDATION.md and forensic_file_LEGAL.md once each, in
\* passed when the file is in the repository root and in failed when it is
\* missing, and enters nothing else; on a repository that has none of the
\* three the run leaves exactly three entries, all in failed.
C17_ForensicFiles ==
    FreshRun("check_forensic") =>
        /\ ~ret.outcome.raised
        /\ \A f \in {"METHODOLOGY.md", "VALIDATION.md", "LEGAL.md"} :
              /\ Count("forensic_file_" \o f) = 1
              /\ Outcome("forensic_file_" \o f) =
                    IF <<f>> \in DOMAIN fs THEN {"passed"} ELSE {"failed"}
        /\ Len(Entries(Report)) = 3
        /\ Report.warnings = <<>>
        /\ Report.errors = <<>>
        /\ ({<<"METHODOLOGY.md">>, <<"VALIDATION.md">>, <<"LEGAL.md">>}
                \cap DOMAIN fs = {}) =>
              /\ Len(Report.failed) = 3
              /\ Report.passed = <<>>
              /\ [k \in 1..3 |-> Report.failed[k].check] =
                    << "forensic_file_METHODOLOGY.md",
                       "forensic_file_VALIDATION.md",
                       "forensic_file_LEGAL.md" >>

\* a forensic run on a repository that has none of the three files
C17_Witness ==
    /\ FreshRun("check_forensic")
    /\ {<<"METHODOLOGY.md">>, <<"VALIDATION.md">>, <<"LEGAL.md">>} \cap DOMAIN fs = {}
    /\ Len(Report.failed) = 3

\* a forensic run on a repository that has some of the three files
C17_WitnessSomePresent ==
    /\ FreshRun("check_forensic")
    /\ Len(Report.failed) = 1
    /\ Len(Report.passed) = 2

\* the source files a code run scans: the files below the repository root
\* whose name ends in an extension of LANGUAGE_EXTENSIONS and that lie in no
\* excluded directory
Scanned ==
    { p \in DOMAIN fs :
        /\ p # <<>>
        /\ \E i \in 1..Len(SourceExtensions) : EndsWith(p[Len(p)], SourceExtensions[i])
        /\ \A i \in 1..Len(p) : p[i] \notin EXCLUDED_DIRS }

\* the scanned files that can be read as UTF-8 text
ScannedText ==
    { p \in Scanned : fs[p].kind = "file" /\ fs[p].content.type = "text"
                        /\ fs[p].content.utf8 }

\* the places, file and line number, of the lines with more than 79
\* characters in the scanned files
LongAt ==
    UNION { { <<p, n>> : n \in { i \in 1..Len(fs[p].content.lines) :
                                    fs[p].content.lines[i].len > 79 } } :
            p \in ScannedText }

\* the entry with the check id that the last operation made in the bucket
EntryOf(bucket, id) ==
    Gain(bucket)[CHOOSE k \in 1..Len(Gain(bucket)) : Gain(bucket)[k].check = id]

C18_WitnessLong ==
    /\ FreshRun("check_code")
    /\ <<<<"src", "test.py">>, 2>> \in LongAt
    /\ Outcome("line_length") = {"failed"}
    /\ Contains(EntryOf("failed", "line_length").message, "src/test.py:2 (100 chars)")

MakefileName(p) ==
    \/ p[Len(p)] \in {"Makefile", "makefile"}
    \/ EndsWith(p[Len(p)], ".mk")

\* the files of the repository that hold a tab character
WithTab ==
    { p \in DOMAIN fs :
        /\ fs[p].kind = "file" /\ fs[p].content.type = "text"
        /\ \E i \in 1..Len(fs[p].content.lines) : fs[p].content.lines[i].tab }

\* the scanned source files, readable as UTF-8 and not Makefiles, that hold
\* a tab character
TabFiles == { p \in ScannedText \cap WithTab : ~MakefileName(p) }

\* C19: a code run enters indentation once in failed, naming the files (up
\* to five of them), when
\* a scanned source file that is readable as UTF-8, is not named Makefile or
\* makefile and is not suffixed .mk holds a tab character; when the only
\* files with a tab are Makefiles, makefiles or .mk files, indentation is
\* not entered in failed.
C19_TabIndentation ==
    FreshRun("check_code") =>
        /\ TabFiles # {} =>
              /\ Count("indentation") = 1
              /\ Outcome("indentation") = {"failed"}
              /\ Cardinality(TabFiles) <= 5 =>
                    \A p \in TabFiles :
                        Contains(EntryOf("failed", "indentation").message, PathStr(p))
        /\ (\A p \in WithTab : MakefileName(p)) =>
              "failed" \notin Outcome("indentation")

\* a code run found the tab in src/test.py
C19_Witness ==
    /\ FreshRun("check_code")
    /\ <<"src", "test.py">> \in TabFiles
    /\ Outcome("indentation") = {"failed"}

\* a code run over a Makefile with a tab beside a clean source file has
\* passed indentation
C19_WitnessMakefile ==
    /\ FreshRun("check_code")
    /\ <<"Makefile">> \in WithTab
    /\ Scanned # {}
    /\ Outcome("indentation") = {"passed"}

\* a code run over a .mk file with a tab beside a clean source file has
\* passed indentation
C19_WitnessMk ==
    /\ FreshRun("check_code")
    /\ <<"rules.mk">> \in WithTab
    /\ Outcome("indentation") = {"passed"}

\* the files of the required, GitHub and security catalogs
CatalogPaths ==
    { <<"README.md">>, <<"CONTRIBUTING.md">>, <<".gitignore">>,
      <<".github", "SECURITY.md">>, <<".github", "CODEOWNERS">>,
      <<".github", "dependabot.yml">>, <<".github", "workflows", "ci.yml">>,
      <<".github", "workflows", "codeql.yml">> }

\* every required file, a license file and every file of the GitHub and
\* security catalogs is in the repository under its name, none of them
\* empty, and the security policy holds at least the two lines (42 bytes)
\* that the compliant_repo fixture writes
Complete ==
    /\ \A p \in CatalogPaths : p \in DOMAIN fs /\ fs[p].kind = "file" /\ fs[p].size > 0
    /\ Licenses # {}
    /\ fs[<<".github", "SECURITY.md">>].size >= 42

\* the check ids of a file run that the catalogs give
FileCheckIds ==
    { "required_file_README.md", "required_file_CONTRIBUTING.md",
      "required_file_.gitignore", "license_file",
      "github_file_.github_SECURITY.md", "github_file_.github_CODEOWNERS",
      "github_file_.github_dependabot.yml", "github_file_.github_workflows_ci.yml",
      "github_file_.github_workflows_codeql.yml" }

\* the check ids of a security run that the security catalog gives
SecurityCheckIds ==
    { "security_file_.github_SECURITY.md", "security_file_.github_dependabot.yml",
      "security_file_.github_workflows_codeql.yml" }

\* C20: in a repository where every required file, a license file and every
\* file of the GitHub and security catalogs is present with content (the
\* security policy with the two lines of the test fixture or more), a file
\* run enters every required_file_*, license_file and github_file_* check in
\* passed only, and a security run enters every security_file_* check in
\* passed only.
C20_CompleteRepositoryPasses ==
    Complete =>
        /\ FreshRun("check_files") =>
              \A id \in FileCheckIds : Outcome(id) = {"passed"}
        /\ FreshRun("check_security") =>
              \A id \in SecurityCheckIds : Outcome(id) = {"passed"}

\* what the code does: the file checks pass, no security_file_* check fails,
\* and a security file passes exactly when it has more than 50 bytes; a
\* shorter one is entered in warnings
C20_PassAboveFiftyBytes ==
    Complete =>
        /\ FreshRun("check_files") =>
              \A id \in FileCheckIds : Outcome(id) = {"passed"}
        /\ FreshRun("check_security") =>
              /\ \A id \in SecurityCheckIds : Outcome(id) \in {{"passed"}, {"warnings"}}
              /\ Outcome("security_file_.github_SECURITY.md") =
                    IF fs[<<".github", "SECURITY.md">>].size > 50
                    THEN {"passed"} ELSE {"warnings"}

\* a security run over the complete repository with the two-line policy file
\* has entered the policy file in warnings
C20_WitnessTwoLinePolicy ==
    /\ Complete
    /\ FreshRun("check_security")
    /\ fs[<<".github", "SECURITY.md">>].size = 42
    /\ Outcome("security_file_.github_SECURITY.md") = {"warnings"}

\* the status that names a bucket
StatusNaming(bucket) ==
    CASE bucket = "passed" -> "pass"
      [] bucket = "failed" -> "fail"
      [] bucket = "warnings" -> "warning"
      [] bucket = "errors" -> "error"

\* C21: every entry stored in a report carries a status field naming its
\* bucket: each entry of failed has status "fail" and each entry of passed
\* has status "pass".
C21_EntriesCarryStatus ==
    \A c \in Checkers : checker[c].constructed =>
        \A b \in {"passed", "failed"} : \A k \in 1..Len(results[c][b]) :
            /\ "status" \in DOMAIN results[c][b][k]
            /\ results[c][b][k].status = StatusNaming(b)

\* what the code stores: every entry of every bucket has the two fields
\* check and message, and no other
C21_EntriesAreCheckAndMessage ==
    \A c \in Checkers : checker[c].constructed =>
        \A b \in Buckets : \A k \in 1..Len(results[c][b]) :
            DOMAIN results[c][b][k] = {"check", "message"}

\* a file run has stored entries in passed and in failed
C21_WitnessStored ==
    /\ ret.op = "check_files"
    /\ Gain("passed") # <<>>
    /\ Gain("failed") # <<>>

\* the two hook files
HookPaths == { <<".husky", "pre-commit">>, <<".husky", "commit-msg">> }

\* the check id of a hook file
HookId(p) == "git_hook_.husky_" \o p[2]

\* the dependency manifest and both hook files are in the repository
ManifestAndHooks ==
    /\ <<"package.json">> \in DOMAIN fs
    /\ \A p \in HookPaths : p \in DOMAIN fs

\* C22: when the dependency manifest is present and the hook files
\* .husky/pre-commit and .husky/commit-msg both exist, a build run enters
\* each of the two git_hook_* checks in passed.
C22_HooksPass ==
    (FreshRun("check_build") /\ ManifestAndHooks) =>
        \A p \in HookPaths : Outcome(HookId(p)) = {"passed"}

\* what the code does: a hook file that exists is entered in passed on
\* Windows or when it is executable, and in warnings otherwise
C22_HooksPassWhenExecutable ==
    (FreshRun("check_build") /\ ManifestAndHooks) =>
        \A p \in HookPaths :
            Outcome(HookId(p)) =
                IF platform.os_name = "nt" \/ fs[p].exec
                THEN {"passed"} ELSE {"warnings"}

\* a build run on a POSIX host over the hook files as the fixture writes
\* them has entered both in warnings
C22_WitnessNotExecutable ==
    /\ FreshRun("check_build")
    /\ ManifestAndHooks
    /\ platform.os_name = "posix"
    /\ \A p \in HookPaths : ~fs[p].exec /\ Outcome(HookId(p)) = {"warnings"}

\* the command was run; its arguments and what the process left behind
Invoked == ret.op = "main"

Args == ret.arg.args

Left == ret.outcome.value

\* the repository argument names a directory that exists
TargetIsDirectory ==
    Args.repository \in DOMAIN fs /\ fs[Args.repository].kind = "dir"

\* the run reaches the forensic checks, whose probes raise
ForensicRaises ==
    /\ Args.check = "forensic" \/ (Args.check = "all" /\ Args.forensic)
    /\ fault["forensic"] # ""

\* C23: the exit status of the command is 1 when construction fails (the
\* path is missing or no directory), 130 when the run is interrupted, 1
\* when an exception leaves the run, 1 when --strict is given and the
\* report has a failed or an error entry, and 0 in every other case:
\* without --strict it is 0 whatever the report, and warnings never count.
C23_ExitCodes ==
    Invoked =>
        Left.status =
            IF ~TargetIsDirectory THEN 1
            ELSE IF ret.arg.interrupt THEN 130
            ELSE IF ForensicRaises THEN 1
            ELSE IF Args.strict /\ (Left.report.failed # <<>> \/ Left.report.errors # <<>>)
                 THEN 1
            ELSE 0

\* a --strict run whose report has warnings and neither failures nor
\* errors has ended with status 0
C23_Witness ==
    /\ Invoked
    /\ Args.strict
    /\ Left.status = 0
    /\ Left.report # NoReport
    /\ Left.report.warnings # <<>>

\* a run without --strict whose report has failures has ended with status 0
C23_WitnessNotStrict ==
    /\ Invoked
    /\ ~Args.strict
    /\ Left.status = 0
    /\ Left.report # NoReport
    /\ Left.report.failed # <<>>

\* a --strict run whose report has failures has ended with status 1
C23_WitnessStrict ==
    /\ Invoked
    /\ Args.strict
    /\ Left.status = 1
    /\ Left.report # NoReport
    /\ Left.report.failed # <<>>

\* an interrupted run has ended with status 130
C23_WitnessInterrupt == Invoked /\ Left.status = 130

\* a run on a path that is no directory has ended with status 1
C23_WitnessConstruction ==
    Invoked /\ ~TargetIsDirectory /\ Left.status = 1 /\ Left.report = NoReport

\* a run that an exception left has ended with status 1
C23_WitnessException ==
    /\ Invoked /\ TargetIsDirectory /\ ~ret.arg.interrupt /\ ForensicRaises
    /\ Left.status = 1
    /\ Left.report = NoReport

\* the entry of the bucket is in what the command wrote to standard
\* output: as its line of the printed report, or in the bucket's list of
\* the JSON document
Shown(bucket, entry) ==
    IF Args.json
    THEN \E k \in 1..Len(Left.stdout[1][bucket]) : Left.stdout[1][bucket][k] = entry
    ELSE \E k \in 1..Len(Left.stdout) :
            Left.stdout[k] = "  - " \o entry.check \o ": " \o entry.message

\* the run of the command produced a report
Reported == Invoked /\ Left.report # NoReport

\* C24: whenever a run produces a report, every failed entry, every error
\* entry and every warning entry is shown to the user, whatever flags were
\* given, and passed entries are shown only when --verbose was given to
\* that invocation.
C24_ProblemsAlwaysShown ==
    Reported =>
        /\ \A b \in {"failed", "errors", "warnings"} :
              \A k \in 1..Len(Left.report[b]) : Shown(b, Left.report[b][k])
        /\ (\E k \in 1..Len(Left.report.passed) : Shown("passed", Left.report.passed[k]))
              => Args.verbose

\* what the code does: --json shows every entry of every bucket; without
\* it --quiet shows nothing at all; with neither, the failed, warning and
\* error entries are shown, and the passed entries when --verbose was given
\* or the environment already had VERBOSE set to "true" in any case of
\* letters
C24_ShownUnlessQuiet ==
    Reported =>
        /\ \A b \in {"failed", "errors", "warnings"} :
              \A k \in 1..Len(Left.report[b]) :
                  Shown(b, Left.report[b][k]) <=> (Args.json \/ ~Args.quiet)
        /\ \A k \in 1..Len(Left.report.passed) :
              Shown("passed", Left.report.passed[k]) <=>
                  \/ Args.json
                  \/ ~Args.quiet /\ (Args.verbose \/ platform.environ.VERBOSE = "TRUE")

\* a --quiet run whose report has failures has written nothing
C24_WitnessQuiet ==
    /\ Reported
    /\ Args.quiet /\ ~Args.json
    /\ Left.report.failed # <<>>
    /\ Left.stdout = <<>>

\* the five formatting properties
FormatChecks ==
    {"line_endings", "encoding", "line_length", "indentation", "trailing_whitespace"}

\* the scanned files that are text
ScannedFiles == { p \in Scanned : fs[p].kind = "file" /\ fs[p].content.type = "text" }

\* the offending locations of a property as the messages write them: the
\* files with a CR LF pair, the files that are not UTF-8, the long lines,
\* the files with a tab, the files with white space at the end of a line
Offending(check) ==
    CASE check = "line_endings" ->
            { PathStr(p) : p \in { q \in ScannedFiles : fs[q].content.crlf } }
      [] check = "encoding" ->
            { PathStr(p) : p \in { q \in ScannedFiles : ~fs[q].content.utf8 } }
      [] check = "line_length" ->
            { PathStr(pn[1]) \o ":" \o ToString(pn[2]) \o " (" : pn \in LongAt }
      [] check = "indentation" -> { PathStr(p) : p \in TabFiles }
      [] check = "trailing_whitespace" ->
            { PathStr(p) : p \in { q \in ScannedText :
                \E i \in 1..Len(fs[q].content.lines) : fs[q].content.lines[i].trail } }

\* the one outcome of a property: passed naming the number of files checked
\* when nothing offends, else failed listing min(n, 5) of the n offending
\* locations, with "..." behind them exactly when n > 5
OneAggregate(check) ==
    LET n == Cardinality(Offending(check))
    IN  /\ Count(check) = 1
        /\ IF n = 0
           THEN /\ Outcome(check) = {"passed"}
                /\ Contains(EntryOf("passed", check).message,
                            " " \o ToString(Cardinality(Scanned)) \o " source files")
           ELSE /\ Outcome(check) = {"failed"}
                /\ Cardinality({ loc \in Offending(check) :
                        Contains(EntryOf("failed", check).message, loc) })
                     = (IF n < 5 THEN n ELSE 5)
                /\ EndsWith(EntryOf("failed", check).message, "...") <=> n > 5

\* C25: for each of the five formatting properties a code run emits exactly
\* one aggregate outcome: pass, naming the number of files checked, when no
\* file or line violates the property, and otherwise fail listing the first
\* min(n, 5) of the n offending locations followed by "..." if and only if
\* n > 5.
C25_OneAggregatePerProperty ==
    FreshRun("check_code") => \A check \in FormatChecks : OneAggregate(check)

\* C25 as amended: the one aggregate outcome is emitted when the repository
\* has at least one source file to scan; with no source file a code run
\* emits no outcome for any of the five properties.
C25_OneAggregateWhenFilesScanned ==
    FreshRun("check_code") =>
        \A check \in FormatChecks :
            IF Scanned # {} THEN OneAggregate(check) ELSE Count(check) = 0

\* a code run over six files with a tab and a clean one has failed
\* indentation with five files listed and the ellipsis
C25_Witness ==
    /\ FreshRun("check_code")
    /\ Cardinality(Offending("indentation")) = 6
    /\ Outcome("indentation") = {"failed"}
    /\ EndsWith(EntryOf("failed", "indentation").message, "...")
    /\ Outcome("encoding") = {"passed"}

\* a code run over exactly five offending files has listed all five
\* without the ellipsis
C25_WitnessFive ==
    /\ FreshRun("check_code")
    /\ Cardinality(Offending("encoding")) = 5
    /\ Outcome("encoding") = {"failed"}
    /\ ~EndsWith(EntryOf("failed", "encoding").message, "...")

\* a code run over a repository without source files has emitted none of
\* the five outcomes
C25_WitnessNoSources ==
    /\ FreshRun("check_code")
    /\ Scanned = {}
    /\ \A check \in FormatChecks : Count(check) = 0

\* the marker file is in the repository root
Marker(name) == <<name>> \in DOMAIN fs

\* the check id is entered once, in passed
PassedOnce(id) == Count(id) = 1 /\ Outcome(id) = {"passed"}

\* the check ids of the build-system markers
MarkerIds == {"python_build", "go_build", "rust_build", "java_maven", "java_gradle"}

\* C26: for each build-system marker (setup.py or pyproject.toml, go.mod,
\* Cargo.toml, pom.xml, build.gradle) present in the repository root a build
\* run enters its own pass, whatever other markers are present, and for an
\* absent marker it enters nothing: no fail in particular.
C26_MarkersIndependent ==
    FreshRun("check_build") =>
        /\ IF Marker("setup.py") \/ Marker("pyproject.toml")
           THEN PassedOnce("python_build") ELSE Count("python_build") = 0
        /\ IF Marker("go.mod") THEN PassedOnce("go_build") ELSE Count("go_build") = 0
        /\ IF Marker("Cargo.toml") THEN PassedOnce("rust_build")
           ELSE Count("rust_build") = 0
        /\ IF Marker("pom.xml") THEN PassedOnce("java_maven")
           ELSE Count("java_maven") = 0
        /\ IF Marker("build.gradle") THEN PassedOnce("java_gradle")
           ELSE Count("java_gradle") = 0

\* C26 as amended: the same, but the pass of build.gradle is entered only
\* when pom.xml is absent; beside pom.xml, build.gradle gets no outcome.
C26_MarkersButGradleBesideMaven ==
    FreshRun("check_build") =>
        /\ IF Marker("setup.py") \/ Marker("pyproject.toml")
           THEN PassedOnce("python_build") ELSE Count("python_build") = 0
        /\ IF Marker("go.mod") THEN PassedOnce("go_build") ELSE Count("go_build") = 0
        /\ IF Marker("Cargo.toml") THEN PassedOnce("rust_build")
           ELSE Count("rust_build") = 0
        /\ IF Marker("pom.xml") THEN PassedOnce("java_maven")
           ELSE Count("java_maven") = 0
        /\ IF Marker("build.gradle") /\ ~Marker("pom.xml") THEN PassedOnce("java_gradle")
           ELSE Count("java_gradle") = 0

\* a build run over a root with every marker has passed four of them and
\* has no outcome for Gradle
C26_Witness ==
    /\ FreshRun("check_build")
    /\ \A name \in {"setup.py", "pyproject.toml", "go.mod", "Cargo.toml",
                    "pom.xml", "build.gradle"} : Marker(name)
    /\ \A id \in MarkerIds \ {"java_gradle"} : PassedOnce(id)
    /\ Count("java_gradle") = 0

\* a build run over a root with build.gradle alone has passed java_gradle
\* and has no outcome for the other markers
C26_WitnessGradleAlone ==
    /\ FreshRun("check_build")
    /\ Marker("build.gradle") /\ ~Marker("pom.xml") /\ ~Marker("go.mod")
    /\ PassedOnce("java_gradle")
    /\ Count("go_build") = 0

\* the repository holds a file of a compiled language
CompiledProject ==
    \E p \in DOMAIN fs :
        /\ p # <<>>
        /\ \E ext \in {".c", ".cpp", ".cc", ".cxx", ".h", ".hpp"} :
              EndsWith(p[Len(p)], ext)

\* the check ids of the GNU Make checks
GnuMakeIds == {"gnu_make_configure", "gnu_make_automake", "gnu_make_makefile"}

\* C30: a build run enters gnu_make_* outcomes only for a compiled-language
\* project; for a repository with no .c, .cpp, .cc, .cxx, .h or .hpp file
\* it enters no gnu_make_* outcome at all.
C30_GnuMakeOnlyForCompiled ==
    (FreshRun("check_build") /\ ~CompiledProject) =>
        \A id \in GnuMakeIds : Count(id) = 0

\* what the code does: every build run enters gnu_make_configure and
\* gnu_make_automake, whatever files the repository holds
C30_GnuMakeAlways ==
    FreshRun("check_build") =>
        /\ Count("gnu_make_configure") = 1
        /\ Count("gnu_make_automake") = 1

\* a build run over a repository with no file of a compiled language has
\* entered the two warnings
C30_WitnessNotCompiled ==
    /\ FreshRun("check_build")
    /\ ~CompiledProject
    /\ Outcome("gnu_make_configure") = {"warnings"}
    /\ Outcome("gnu_make_automake") = {"warnings"}

\* the repository holds a file with one of the extensions
Detected(exts) ==
    \E p \in DOMAIN fs : p # <<>> /\ \E e \in exts : EndsWith(p[Len(p)], e)

\* the bucket the outcome of a linter belongs in: warnings when the binary
\* is not found or cannot be started, passed for exit status zero, failed
\* for any other exit status
LinterBucket(tool) ==
    IF ~platform.tools[tool].found \/ platform.tools[tool].error # "" THEN "warnings"
    ELSE IF platform.tools[tool].returncode = 0 THEN "passed"
    ELSE "failed"

\* the same for a security tool, whose run of more than 60 seconds is a
\* warning
SastBucket(tool) ==
    IF ~platform.tools[tool].found \/ platform.tools[tool].error # "" THEN "warnings"
    ELSE IF platform.tools[tool].seconds > 60 THEN "warnings"
    ELSE IF platform.tools[tool].returncode = 0 THEN "passed"
    ELSE "failed"

\* C27: for every linter the code run invokes and every SAST tool the
\* security run invokes: a binary that cannot be located yields warning,
\* exit status zero yields pass, a non-zero exit status yields fail, and a
\* security tool run of more than 60 seconds yields warning; in none of
\* these cases is an error entry added or the category aborted (its other
\* checks are in the report).
C27_ExternalTools ==
    /\ FreshRun("check_code") =>
          /\ Count("linter_python") = 1
          /\ Outcome("linter_python") = {LinterBucket("ruff")}
          /\ IF Detected({".js", ".jsx"})
             THEN Count("linter_javascript") = 1
                    /\ Outcome("linter_javascript") = {LinterBucket("eslint")}
             ELSE Count("linter_javascript") = 0
          /\ Report.errors = <<>>
          /\ Count("line_length") = 1
    /\ FreshRun("check_security") =>
          /\ Count("sast_python") = 1
          /\ Outcome("sast_python") = {SastBucket("bandit")}
          /\ IF Detected({".js", ".jsx"})
             THEN Count("sast_javascript") = 1
                    /\ Outcome("sast_javascript") = {SastBucket("eslint")}
             ELSE Count("sast_javascript") = 0
          /\ Report.errors = <<>>
          /\ Count("security_file_.github_SECURITY.md") = 1

\* a security run whose bandit scan took longer than the timeout and whose
\* eslint reported issues has a warning and a failure and no error entry
C27_Witness ==
    /\ FreshRun("check_security")
    /\ platform.tools["bandit"].seconds > 60
    /\ platform.tools["eslint"].returncode # 0
    /\ Outcome("sast_python") = {"warnings"}
    /\ Outcome("sast_javascript") = {"failed"}
    /\ Report.errors = <<>>

\* a code run with ruff missing and eslint passing
C27_WitnessLinters ==
    /\ FreshRun("check_code")
    /\ ~platform.tools["ruff"].found
    /\ Outcome("linter_python") = {"warnings"}
    /\ Outcome("linter_javascript") = {"passed"}

\* the probe of a single file raised during the last run of a category
ProbeRaised == ret.op \in ModuleOps /\ fault[OpCategory(ret.op)] # ""

\* C28: in each of the four category modules an exception raised while one
\* file is inspected does not abort the category: the run adds no error
\* entry and the outcomes of the other checks are in the report.
C28_FileExceptionContained ==
    ProbeRaised =>
        /\ Gain("errors") = <<>>
        /\ Gain("passed") \o Gain("failed") \o Gain("warnings") # <<>>

\* the scanned source files that cannot be read as UTF-8 text
Undecodable == Scanned \ ScannedText

\* what holds of the loops that read the source files: a file that cannot
\* be read leaves the code run and the security run without an error entry
\* and with their aggregate outcomes
C28_ReadFailuresContained ==
    /\ (FreshRun("check_code") /\ Undecodable # {}) =>
          /\ Report.errors = <<>>
          /\ \A id \in {"line_endings", "encoding", "line_length", "indentation",
                        "trailing_whitespace"} : Count(id) = 1
    /\ (FreshRun("check_security") /\ Undecodable # {}) =>
          /\ Report.errors = <<>>
          /\ Count("sensitive_data") = 1

\* a security run over a tree with a source file that is not UTF-8
C28_WitnessUndecodable ==
    /\ FreshRun("check_security")
    /\ Undecodable # {}
    /\ Outcome("sensitive_data") = {"passed"}

\* a run of the files category during which the probe of README.md raised
C28_WitnessProbeRaised ==
    /\ ProbeRaised
    /\ ret.op = "check_files"
    /\ Len(Gain("errors")) = 1

\* the last operation was check_files on a checker whose file validator
\* returned the given records
RanRecords == ret.op = "check_files" /\ ret.arg # None

\* the entries that the records with a status of the bucket make, in the
\* order of the records
EntriesFor(records, bucket) ==
    LET mine == SelectSeq(records,
                    LAMBDA rec : /\ rec.status \in {"pass", "fail", "warning"}
                                 /\ BucketOf(rec.status) = bucket)
    IN  [k \in 1..Len(mine) |-> [check |-> mine[k].check, message |-> mine[k].message]]

\* C29: a record whose status is none of pass, fail and warning changes
\* nothing in the report: the run does not raise and adds no error entry,
\* every bucket keeps what it held, and passed, failed and warnings gain
\* exactly the entries of the records with a recognized status, in order,
\* so the records beside the unrecognized one are still normalized.
C29_UnknownStatusChangesNothing ==
    RanRecords =>
        /\ ~ret.outcome.raised
        /\ Gain("errors") = <<>>
        /\ \A b \in Buckets : IsExtension(ret.before[b], Report[b])
        /\ \A b \in {"passed", "failed", "warnings"} :
              Gain(b) = EntriesFor(ret.arg.returned, b)

\* records with an unrecognized status between a pass and a fail, returned
\* to a checker whose report already held entries
C29_Witness ==
    /\ RanRecords
    /\ Len(ret.arg.returned) = 3
    /\ ret.arg.returned[2].status = "skip"
    /\ ret.before # ValidationResult
    /\ Len(Gain("passed")) = 1
    /\ Len(Gain("failed")) = 1
    /\ Gain("warnings") = <<>>

\* a single record with an unrecognized status leaves the report as it was
C29_WitnessAlone ==
    /\ RanRecords
    /\ Len(ret.arg.returned) = 1
    /\ ret.arg.returned[1].status = "error"
    /\ Report = ret.before

====
